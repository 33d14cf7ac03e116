--------------------------- MODULE HttpResponse_proofs ---------------------------
(***************************************************************************)
(* http_decode_chunked_body stays inside its input and its output, takes   *)
(* no chunk with another size than the one written, and yields the         *)
(* server's data or nothing; http_parse_response understands a head that   *)
(* is whole and refuses one that was cut; and the client's verdict is      *)
(* right: for every response, width of size_t and size of the output.      *)
(***************************************************************************)
EXTENDS HttpResponse, SequenceTheorems, Basics_proofs

\* A nonempty set of offsets has a smallest one.
LEMMA SmallestType ==
  ASSUME NEW S, S \subseteq Nat, S # {}
  PROVE  Smallest(S) \in S /\ \A m \in S : Smallest(S) <= m
<1> DEFINE P(n) == \A m \in S : n <= m
<1>1. \E n \in S : P(n)
  BY LeastElement
<1> HIDE DEF P
<1>2. (CHOOSE n \in S : P(n)) \in S /\ P(CHOOSE n \in S : P(n))
  BY <1>1
<1> QED
  BY <1>2 DEF P, Smallest

\* The element that is no larger than any other.
LEMMA SmallestIs ==
  ASSUME NEW S, S \subseteq Nat, NEW e \in S, \A p \in S : e <= p
  PROVE  Smallest(S) = e
<1>1. Smallest(S) \in S /\ \A m \in S : Smallest(S) <= m
  BY SmallestType
<1>2. PICK x : x = Smallest(S)
  OBVIOUS
<1>3. x \in Nat /\ e \in Nat /\ x >= e /\ x <= e
  BY <1>1, <1>2
<1> QED
  BY <1>2, <1>3

(***************************************************************************)
(* parse_chunk_size, by induction over the line.                           *)
(***************************************************************************)
\* The value of a character that is part of a size, and -1 for any other.
LEMMA HexValueType ==
  ASSUME NEW c
  PROVE  hex_value(c) \in Int /\ hex_value(c) >= -1
BY DEF hex_value

\* The part of a line before its extension is well defined.
LEMMA SizeLenType ==
  ASSUME NEW line, Len(line) \in Nat
  PROVE  SizeLen(line) \in 0 .. Len(line)
<1> DEFINE T == {n \in Nat : n < Len(line) => line[n + 1] = Semicolon}
           P(n) == /\ n < Len(line) => line[n + 1] = Semicolon
                   /\ \A k \in 1 .. n : line[k] # Semicolon
<1>1. Len(line) \in T
  OBVIOUS
<1>2. PICK n \in T : \A m \in T : n <= m
  <2>1. T \subseteq Nat
    OBVIOUS
  <2> HIDE DEF T
  <2> QED
    BY <1>1, <2>1, LeastElement
<1>3. n \in 0 .. Len(line)
  BY <1>1, <1>2
<1>4. ASSUME NEW k \in 1 .. n PROVE line[k] # Semicolon
  <2>1. k - 1 \in Nat /\ k - 1 < n /\ (k - 1) + 1 = k /\ k - 1 < Len(line)
    BY <1>3
  <2>2. k - 1 \notin T
    BY <1>2, <2>1
  <2>3. line[(k - 1) + 1] # Semicolon
    BY <2>1, <2>2
  <2> QED
    BY <2>1, <2>3
<1>5. P(n)
  BY <1>2, <1>4
<1>6. \E m \in 0 .. Len(line) : P(m)
  BY <1>3, <1>5
<1> HIDE DEF P
<1>7. (CHOOSE m \in 0 .. Len(line) : P(m)) \in 0 .. Len(line)
  BY <1>6
<1> QED
  BY <1>7 DEF P, SizeLen

\* What one character of the line does to the size read so far.
CheckedStep(line, k, value) ==
  IF IsBlank(line[k]) THEN value ELSE AddDigit(value, hex_value(line[k]))

\* The same without a limit.
WrittenStep(line, k, value) ==
  IF IsBlank(line[k]) THEN value ELSE value * 16 + hex_value(line[k])

\* A function that computes the size of every beginning of the line.
Checked(f, line, n) ==
  f = [k \in 0 .. n |-> IF k = 0 THEN 0
                        ELSE IF IsBlank(line[k]) THEN f[k - 1]
                        ELSE AddDigit(f[k - 1], hex_value(line[k]))]

\* A function that computes it without a limit.
Written(f, line, n) ==
  f = [k \in 0 .. n |-> IF k = 0 THEN 0
                        ELSE IF IsBlank(line[k]) THEN f[k - 1]
                        ELSE f[k - 1] * 16 + hex_value(line[k])]

\* The first exists.
LEMMA CheckedExists ==
  ASSUME NEW line, NEW n \in Nat
  PROVE  \E f : Checked(f, line, n)
<1> DEFINE S == {m \in Nat : \E f : Checked(f, line, m)}
<1>1. 0 \in S
  <2>1. Checked([k \in 0 .. 0 |-> 0], line, 0)
    BY DEF Checked
  <2> QED
    BY <2>1
<1>2. ASSUME NEW m \in Nat, m \in S PROVE m + 1 \in S
  <2>1. PICK f : Checked(f, line, m)
    BY <1>2
  <2> DEFINE g == [k \in 0 .. (m + 1) |-> IF k = m + 1 THEN CheckedStep(line, m + 1, f[m]) ELSE f[k]]
  <2>2. \A k \in 0 .. m : f[k] = IF k = 0 THEN 0 ELSE CheckedStep(line, k, f[k - 1])
    BY <2>1 DEF Checked, CheckedStep
  <2>3. \A k \in 0 .. m : g[k] = f[k]
    OBVIOUS
  <2>4. ASSUME NEW k \in 0 .. (m + 1)
        PROVE  g[k] = IF k = 0 THEN 0 ELSE CheckedStep(line, k, g[k - 1])
    <3>1. CASE k = m + 1
      BY <2>3, <3>1
    <3>2. CASE k # m + 1
      BY <2>2, <2>3, <3>2
    <3> QED
      BY <3>1, <3>2
  <2>5. g = [k \in 0 .. (m + 1) |-> IF k = 0 THEN 0 ELSE CheckedStep(line, k, g[k - 1])]
    BY <2>4
  <2> HIDE DEF g
  <2>6. Checked(g, line, m + 1)
    BY <2>5 DEF Checked, CheckedStep
  <2> QED
    BY <2>6
<1> QED
  <2> HIDE DEF S
  <2>1. n \in S
    BY <1>1, <1>2, SetInduction
  <2> QED
    BY <2>1 DEF S

\* So does the second.
LEMMA WrittenExists ==
  ASSUME NEW line, NEW n \in Nat
  PROVE  \E f : Written(f, line, n)
<1> DEFINE S == {m \in Nat : \E f : Written(f, line, m)}
<1>1. 0 \in S
  <2>1. Written([k \in 0 .. 0 |-> 0], line, 0)
    BY DEF Written
  <2> QED
    BY <2>1
<1>2. ASSUME NEW m \in Nat, m \in S PROVE m + 1 \in S
  <2>1. PICK f : Written(f, line, m)
    BY <1>2
  <2> DEFINE g == [k \in 0 .. (m + 1) |-> IF k = m + 1 THEN WrittenStep(line, m + 1, f[m]) ELSE f[k]]
  <2>2. \A k \in 0 .. m : f[k] = IF k = 0 THEN 0 ELSE WrittenStep(line, k, f[k - 1])
    BY <2>1 DEF Written, WrittenStep
  <2>3. \A k \in 0 .. m : g[k] = f[k]
    OBVIOUS
  <2>4. ASSUME NEW k \in 0 .. (m + 1)
        PROVE  g[k] = IF k = 0 THEN 0 ELSE WrittenStep(line, k, g[k - 1])
    <3>1. CASE k = m + 1
      BY <2>3, <3>1
    <3>2. CASE k # m + 1
      BY <2>2, <2>3, <3>2
    <3> QED
      BY <3>1, <3>2
  <2>5. g = [k \in 0 .. (m + 1) |-> IF k = 0 THEN 0 ELSE WrittenStep(line, k, g[k - 1])]
    BY <2>4
  <2> HIDE DEF g
  <2>6. Written(g, line, m + 1)
    BY <2>5 DEF Written, WrittenStep
  <2> QED
    BY <2>6
<1> QED
  <2> HIDE DEF S
  <2>1. n \in S
    BY <1>1, <1>2, SetInduction
  <2> QED
    BY <2>1 DEF S

\* parse_chunk_size fails or returns the size that is written in the line.
LEMMA SizeIsWritten ==
  ASSUME NEW line, Len(line) \in Nat
  PROVE  /\ parse_chunk_size(line) \in Int
         /\ parse_chunk_size(line) >= 0 => parse_chunk_size(line) = WrittenSize(line)
<1> DEFINE n == SizeLen(line)
           f == CHOOSE u : Checked(u, line, n)
           g == CHOOSE u : Written(u, line, n)
<1>1. n \in Nat
  BY SizeLenType
<1>2. Checked(f, line, n) /\ Written(g, line, n)
  BY <1>1, CheckedExists, WrittenExists
<1>3. WrittenSize(line) = g[n]
  BY DEF WrittenSize, Written
<1>4. parse_chunk_size(line) = IF \A k \in 1 .. n : IsBlank(line[k]) THEN -1 ELSE f[n]
  BY DEF parse_chunk_size, Checked
<1> HIDE DEF n, f, g
<1>5. \A k \in 0 .. n : f[k] = IF k = 0 THEN 0 ELSE CheckedStep(line, k, f[k - 1])
  BY <1>2 DEF Checked, CheckedStep
<1>6. \A k \in 0 .. n : g[k] = IF k = 0 THEN 0 ELSE WrittenStep(line, k, g[k - 1])
  BY <1>2 DEF Written, WrittenStep
<1> DEFINE Agree(a, b) == a = -1 \/ (a \in Nat /\ a = b)
           S == {k \in Nat : k <= n => Agree(f[k], g[k])}
<1>7. 0 \in S
  BY <1>1, <1>5, <1>6
<1>8. ASSUME NEW k \in Nat, k \in S PROVE k + 1 \in S
  <2> SUFFICES ASSUME k + 1 <= n PROVE Agree(f[k + 1], g[k + 1])
    OBVIOUS
  <2>1. k + 1 \in 0 .. n /\ k + 1 # 0 /\ (k + 1) - 1 = k /\ k <= n
    BY <1>1
  <2>2. Agree(f[k], g[k])
    BY <1>8, <2>1
  <2>3. f[k + 1] = CheckedStep(line, k + 1, f[k]) /\ g[k + 1] = WrittenStep(line, k + 1, g[k])
    BY <1>5, <1>6, <2>1
  <2>4. ASSUME NEW a, NEW b, Agree(a, b)
        PROVE  Agree(CheckedStep(line, k + 1, a), WrittenStep(line, k + 1, b))
    <3>1. CASE IsBlank(line[k + 1])
      BY <2>4, <3>1 DEF CheckedStep, WrittenStep
    <3>2. CASE ~IsBlank(line[k + 1])
      <4>1. PICK d \in Int : d = hex_value(line[k + 1])
        BY HexValueType
      <4>2. CheckedStep(line, k + 1, a) = AddDigit(a, d) /\ WrittenStep(line, k + 1, b) = b * 16 + d
        BY <3>2, <4>1 DEF CheckedStep, WrittenStep
      <4>3. CASE a = -1 \/ d < 0 \/ a > (SizeMax - d) \div 16
        BY <4>2, <4>3 DEF AddDigit, Overflowed
      <4>4. CASE ~(a = -1 \/ d < 0 \/ a > (SizeMax - d) \div 16)
        <5>1. a \in Nat /\ a = b /\ d \in Nat
          BY <2>4, <4>4
        <5>2. AddDigit(a, d) = a * 16 + d
          BY <4>4 DEF AddDigit, Overflowed
        <5> QED
          BY <4>2, <5>1, <5>2
      <4> QED
        BY <4>3, <4>4
    <3> QED
      BY <3>1, <3>2
  <2> HIDE DEF Agree
  <2> QED
    BY <2>2, <2>3, <2>4
<1>9. n \in S
  <2> HIDE DEF S
  <2> QED
    BY <1>1, <1>7, <1>8, SetInduction
<1>10. Agree(f[n], g[n])
  BY <1>1, <1>9
<1> QED
  BY <1>3, <1>4, <1>10

(***************************************************************************)
(* What arrives is a sequence of characters.                               *)
(***************************************************************************)
\* A function that joins the first sequences.
Joins(f, seqs) ==
  f = [k \in 0 .. Len(seqs) |-> IF k = 0 THEN <<>> ELSE f[k - 1] \o seqs[k]]

\* There is one.
LEMMA JoinsExists ==
  ASSUME NEW seqs, Len(seqs) \in Nat
  PROVE  \E f : Joins(f, seqs)
<1> DEFINE Good(f, n) == f = [k \in 0 .. n |-> IF k = 0 THEN <<>> ELSE f[k - 1] \o seqs[k]]
           S == {n \in Nat : \E f : Good(f, n)}
<1>1. 0 \in S
  <2>1. Good([k \in 0 .. 0 |-> <<>>], 0)
    OBVIOUS
  <2> QED
    BY <2>1
<1>2. ASSUME NEW n \in Nat, n \in S PROVE n + 1 \in S
  <2>1. PICK f : Good(f, n)
    BY <1>2
  <2> DEFINE g == [k \in 0 .. (n + 1) |-> IF k = n + 1 THEN f[n] \o seqs[n + 1] ELSE f[k]]
  <2>2. \A k \in 0 .. n : f[k] = IF k = 0 THEN <<>> ELSE f[k - 1] \o seqs[k]
    BY <2>1
  <2>3. \A k \in 0 .. n : g[k] = f[k]
    OBVIOUS
  <2>4. ASSUME NEW k \in 0 .. (n + 1)
        PROVE  g[k] = IF k = 0 THEN <<>> ELSE g[k - 1] \o seqs[k]
    <3>1. CASE k = n + 1
      BY <2>3, <3>1
    <3>2. CASE k # n + 1
      BY <2>2, <2>3, <3>2
    <3> QED
      BY <3>1, <3>2
  <2>5. Good(g, n + 1)
    BY <2>4
  <2> HIDE DEF g, Good
  <2> QED
    BY <2>5
<1>3. Len(seqs) \in S
  <2> HIDE DEF S
  <2> QED
    BY <1>1, <1>2, SetInduction
<1> QED
  BY <1>3 DEF Joins

\* Sequences joined are a sequence.
LEMMA ConcatType ==
  ASSUME NEW seqs \in Seq(Seq(Nat))
  PROVE  Concat(seqs) \in Seq(Nat)
<1> DEFINE f == CHOOSE g : Joins(g, seqs)
<1>1. Len(seqs) \in Nat /\ \A k \in 1 .. Len(seqs) : seqs[k] \in Seq(Nat)
  OBVIOUS
<1>2. Joins(f, seqs)
  BY <1>1, JoinsExists
<1>3. Concat(seqs) = f[Len(seqs)]
  BY DEF Concat, Joins
<1> HIDE DEF f
<1>4. \A k \in 0 .. Len(seqs) : f[k] = IF k = 0 THEN <<>> ELSE f[k - 1] \o seqs[k]
  BY <1>2 DEF Joins
<1> DEFINE S == {n \in Nat : n <= Len(seqs) => f[n] \in Seq(Nat)}
<1>5. 0 \in S
  <2>1. 0 \in 0 .. Len(seqs)
    BY <1>1
  <2>2. f[0] = <<>>
    BY <1>4, <2>1
  <2>3. <<>> \in Seq(Nat)
    OBVIOUS
  <2>4. f[0] \in Seq(Nat)
    BY <2>2, <2>3, Zenon
  <2> QED
    BY <2>4
<1>6. ASSUME NEW n \in Nat, n \in S PROVE n + 1 \in S
  <2> SUFFICES ASSUME n + 1 <= Len(seqs) PROVE f[n + 1] \in Seq(Nat)
    OBVIOUS
  <2>1. f[n] \in Seq(Nat) /\ seqs[n + 1] \in Seq(Nat)
    BY <1>1, <1>6
  <2>2. f[n + 1] = f[n] \o seqs[n + 1]
    <3>1. n + 1 \in 0 .. Len(seqs) /\ n + 1 # 0 /\ (n + 1) - 1 = n
      BY <1>1
    <3>2. f[n + 1] = f[(n + 1) - 1] \o seqs[n + 1]
      BY <1>4, <3>1, Zenon
    <3> QED
      BY <3>1, <3>2, Zenon
  <2> QED
    BY <2>1, <2>2
<1>7. Len(seqs) \in S
  <2> HIDE DEF S
  <2> QED
    BY <1>1, <1>5, <1>6, SetInduction
<1> QED
  BY <1>1, <1>3, <1>7

\* What a server may send.
ServerResponse == [start : Seq(Nat), headers : Seq(HeaderField), body : Body]

\* Its head is a sequence of characters.
LEMMA HeadType ==
  ASSUME NEW r \in ServerResponse
  PROVE  HeadOf(r) \in Seq(Nat)
<1> DEFINE field(k) == <<r.headers[k].name, Colon>> \o r.headers[k].value \o <<CR, LF>>
           fields == [k \in 1 .. Len(r.headers) |-> field(k)]
<1>1. r.start \in Seq(Nat) /\ r.headers \in Seq(HeaderField)
  BY DEF ServerResponse
<1>2. Colon \in Nat /\ CR \in Nat /\ LF \in Nat
  BY DEF Colon, CR, LF
<1>3. <<CR, LF>> \in Seq(Nat)
  BY <1>2
<1>4. ASSUME NEW k \in 1 .. Len(r.headers) PROVE field(k) \in Seq(Nat)
  <2>1. r.headers[k] \in HeaderField
    BY <1>1
  <2>2. r.headers[k].name \in Nat /\ r.headers[k].value \in Seq(Nat)
    BY <2>1 DEF HeaderField
  <2>3. <<r.headers[k].name, Colon>> \in Seq(Nat)
    BY <1>2, <2>2
  <2>4. <<r.headers[k].name, Colon>> \o r.headers[k].value \in Seq(Nat)
    BY <2>2, <2>3
  <2> QED
    BY <1>3, <2>4
<1> HIDE DEF field
<1>5. fields \in Seq(Seq(Nat))
  <2>1. Len(r.headers) \in Nat /\ fields \in [1 .. Len(r.headers) -> Seq(Nat)]
    BY <1>1, <1>4
  <2> HIDE DEF fields
  <2> QED
    BY <2>1
<1>6. HeadOf(r) = ((r.start \o <<CR, LF>>) \o Concat(fields)) \o <<CR, LF>>
  BY DEF HeadOf, field
<1> HIDE DEF fields
<1>7. Concat(fields) \in Seq(Nat)
  BY <1>5, ConcatType
<1>8. r.start \o <<CR, LF>> \in Seq(Nat)
  BY <1>1, <1>3
<1>9. (r.start \o <<CR, LF>>) \o Concat(fields) \in Seq(Nat)
  BY <1>7, <1>8
<1> QED
  BY <1>3, <1>6, <1>9

\* A function that divides n by 16, again and again.
Divides(f, n) == f = [k \in 0 .. (n + 1) |-> IF k = 0 THEN n ELSE f[k - 1] \div 16]

\* What is left of a size when its last digits are taken away.
RestOf(n) == CHOOSE f : Divides(f, n)

\* How many digits a size has.
DigitsOf(n) == Smallest({k \in 1 .. (n + 1) : RestOf(n)[k] = 0})

\* The digits come to an end, and one digit more is one division less.
LEMMA RestType ==
  ASSUME NEW n \in Nat
  PROVE  /\ RestOf(n)[0] = n
         /\ \A k \in 0 .. (n + 1) : RestOf(n)[k] \in Nat /\ RestOf(n)[k] <= n
         /\ \A k \in 1 .. (n + 1) : RestOf(n)[k] = RestOf(n)[k - 1] \div 16
         /\ DigitsOf(n) \in 1 .. (n + 1) /\ RestOf(n)[DigitsOf(n)] = 0
<1> DEFINE f == RestOf(n)
           step == [k \in Nat |-> [v \in Nat |-> v \div 16]]
<1>1. step \in [Nat -> [Nat -> Nat]]
  <2>1. \A v \in Nat : v \div 16 \in Nat
    OBVIOUS
  <2> QED
    BY <2>1
<1>2. PICK g \in [0 .. (n + 1) -> Nat] : Computes(g, n + 1, n, step)
  <2> HIDE DEF step
  <2> DEFINE m == n + 1
  <2>1. m \in Nat
    OBVIOUS
  <2> HIDE DEF m
  <2>2. \E g \in [0 .. m -> Nat] : Computes(g, m, n, step)
    BY <1>1, <2>1, RecursionExists
  <2> QED
    BY <2>2 DEF m
<1>3. Divides(g, n)
  <2>1. \A k \in 0 .. (n + 1) : g[k] = IF k = 0 THEN n ELSE step[k][g[k - 1]]
    BY <1>2 DEF Computes
  <2>2. ASSUME NEW k \in 0 .. (n + 1) PROVE g[k] = IF k = 0 THEN n ELSE g[k - 1] \div 16
    <3>1. CASE k = 0
      BY <2>1, <3>1
    <3>2. CASE k # 0
      <4>1. k \in Nat /\ k - 1 \in 0 .. (n + 1)
        BY <3>2
      <4>2. g[k - 1] \in Nat
        BY <4>1
      <4> QED
        BY <2>1, <3>2, <4>1, <4>2
    <3> QED
      BY <3>1, <3>2
  <2> QED
    BY <2>2 DEF Divides
<1>4. Divides(f, n)
  BY <1>3 DEF RestOf
<1> HIDE DEF f, step
<1>5. f[0] = n /\ \A k \in 1 .. (n + 1) : f[k] = f[k - 1] \div 16
  BY <1>4 DEF Divides
<1> DEFINE P(x, k) == x \in Nat /\ x <= n /\ (x = 0 \/ x + k <= n)
           S == {k \in Nat : k <= n + 1 => P(f[k], k)}
<1>6. 0 \in S
  BY <1>5
<1>7. ASSUME NEW k \in Nat, k \in S PROVE k + 1 \in S
  <2> SUFFICES ASSUME k + 1 <= n + 1 PROVE P(f[k + 1], k + 1)
    OBVIOUS
  <2>1. k + 1 \in 1 .. (n + 1) /\ (k + 1) - 1 = k /\ k <= n + 1
    OBVIOUS
  <2>2. f[k + 1] = f[k] \div 16 /\ P(f[k], k)
    BY <1>5, <1>7, <2>1
  <2>3. \A x \in Nat : x \div 16 \in Nat /\ x \div 16 <= x /\ (x > 0 => x \div 16 <= x - 1)
    OBVIOUS
  <2>4. ASSUME NEW x, P(x, k) PROVE P(x \div 16, k + 1)
    BY <2>3, <2>4
  <2> HIDE DEF P
  <2> QED
    BY <2>2, <2>4
<1>8. Nat \subseteq S
  <2> HIDE DEF S
  <2> QED
    BY <1>6, <1>7, SetInduction
<1>9. \A k \in 0 .. (n + 1) : P(f[k], k)
  BY <1>8
<1>10. f[n + 1] = 0
  BY <1>9
<1> DEFINE T == {k \in 1 .. (n + 1) : f[k] = 0}
<1>11. DigitsOf(n) \in T
  <2>1. n + 1 \in T /\ T \subseteq Nat
    BY <1>10
  <2>2. DigitsOf(n) = Smallest(T)
    BY DEF DigitsOf, f
  <2> HIDE DEF T
  <2> QED
    BY <2>1, <2>2, SmallestType
<1> QED
  BY <1>5, <1>9, <1>11 DEF f

\* The digits are what they are.
LEMMA HexType ==
  ASSUME NEW n \in Nat
  PROVE  /\ HexDigits(n) \in Seq(Nat) /\ Len(HexDigits(n)) = DigitsOf(n)
         /\ \A j \in 1 .. DigitsOf(n) : HexDigits(n)[j] = Digit(RestOf(n)[DigitsOf(n) - j] % 16)
<1> DEFINE c == DigitsOf(n)
           f == RestOf(n)
           h == [j \in 1 .. c |-> Digit(f[c - j] % 16)]
<1>1. HexDigits(n) = h
  BY DEF HexDigits, DigitsOf, RestOf, Divides
<1>2. c \in Nat /\ c \in 1 .. (n + 1) /\ \A k \in 0 .. (n + 1) : f[k] \in Nat
  <2>1. c \in 1 .. (n + 1) /\ \A k \in 0 .. (n + 1) : f[k] \in Nat
    BY RestType
  <2> HIDE DEF c, f
  <2> QED
    BY <2>1
<1> HIDE DEF c, f
<1>3. ASSUME NEW j \in 1 .. c PROVE Digit(f[c - j] % 16) \in Nat
  <2>1. f[c - j] \in Nat
    BY <1>2
  <2>2. f[c - j] % 16 \in Nat
    BY <2>1
  <2> QED
    BY <2>2 DEF Digit
<1>4. h \in [1 .. c -> Nat]
  BY <1>3
<1>5. \A j \in 1 .. c : h[j] = Digit(f[c - j] % 16)
  OBVIOUS
<1> HIDE DEF h
<1>6. h \in Seq(Nat) /\ Len(h) = c
  BY <1>2, <1>4
<1> QED
  BY <1>1, <1>5, <1>6 DEF c, f

\* A size line without its end.
LineOf(b, n) == ([k \in 1 .. b.zeros |-> Digit(0)] \o HexDigits(n)) \o b.extension

\* Its parts.
LEMMA LineOfParts ==
  ASSUME NEW b \in Body, NEW n \in Nat
  PROVE  /\ SizeLine(b, n) = LineOf(b, n) \o <<CR, LF>>
         /\ LineOf(b, n) \in Seq(Nat) /\ b.zeros \in Nat /\ b.extension \in Seq(Nat)
         /\ Len(LineOf(b, n)) = b.zeros + DigitsOf(n) + Len(b.extension)
         /\ \A k \in 1 .. b.zeros : LineOf(b, n)[k] = Digit(0)
         /\ \A k \in 1 .. DigitsOf(n) : LineOf(b, n)[b.zeros + k] = HexDigits(n)[k]
         /\ \A k \in 1 .. Len(b.extension) : LineOf(b, n)[b.zeros + DigitsOf(n) + k] = b.extension[k]
<1> DEFINE zs == [k \in 1 .. b.zeros |-> Digit(0)]
           h  == HexDigits(n)
           e  == b.extension
<1>1. b.zeros \in Nat /\ e \in Seq(Nat)
  BY DEF Body
<1>2. Digit(0) \in Nat
  BY DEF Digit
<1>3. zs \in Seq(Nat) /\ Len(zs) = b.zeros /\ \A k \in 1 .. b.zeros : zs[k] = Digit(0)
  <2>1. zs \in [1 .. b.zeros -> Nat] /\ \A k \in 1 .. b.zeros : zs[k] = Digit(0)
    BY <1>2
  <2> HIDE DEF zs
  <2> QED
    BY <1>1, <2>1
<1>4. h \in Seq(Nat) /\ Len(h) = DigitsOf(n)
  BY HexType
<1>5. LineOf(b, n) = (zs \o h) \o e /\ SizeLine(b, n) = LineOf(b, n) \o <<CR, LF>>
  BY DEF LineOf, SizeLine
<1> HIDE DEF zs, h, e
<1>6. /\ zs \o h \in Seq(Nat) /\ Len(zs \o h) = Len(zs) + Len(h)
      /\ Occurs(zs \o h, 0, zs) /\ Occurs(zs \o h, Len(zs), h)
  BY <1>3, <1>4, Joined
<1> DEFINE l == (zs \o h) \o e
<1>7. /\ l \in Seq(Nat) /\ Len(l) = Len(zs \o h) + Len(e)
      /\ Occurs(l, 0, zs) /\ Occurs(l, Len(zs), h) /\ Occurs(l, Len(zs \o h), e)
  BY <1>1, <1>3, <1>4, <1>6, Joined
<1> HIDE DEF l
<1>8. /\ \A k \in 1 .. Len(zs) : l[0 + k] = zs[k]
      /\ \A k \in 1 .. Len(h) : l[Len(zs) + k] = h[k]
      /\ \A k \in 1 .. Len(e) : l[Len(zs \o h) + k] = e[k]
  BY <1>7 DEF Occurs
<1>9. Len(zs \o h) = b.zeros + DigitsOf(n)
  BY <1>3, <1>4, <1>6
<1>10. \A k \in 1 .. b.zeros : l[k] = Digit(0)
  BY <1>1, <1>3, <1>8
<1> QED
  BY <1>1, <1>3, <1>4, <1>5, <1>7, <1>8, <1>9, <1>10 DEF l, h, e

\* A size line is a sequence of characters too.
LEMMA SizeLineType ==
  ASSUME NEW b \in Body, NEW n \in Nat
  PROVE  SizeLine(b, n) \in Seq(Nat)
<1>1. SizeLine(b, n) = LineOf(b, n) \o <<CR, LF>> /\ LineOf(b, n) \in Seq(Nat)
  BY LineOfParts
<1>2. <<CR, LF>> \in Seq(Nat)
  BY DEF CR, LF
<1> QED
  BY <1>1, <1>2

\* And so is the body.
LEMMA BodyType ==
  ASSUME NEW r \in ServerResponse
  PROVE  BodyOf(r) \in Seq(Nat)
<1> DEFINE b == r.body
           chunk(k) == SizeLine(b, Len(b.chunks[k])) \o b.chunks[k] \o <<CR, LF>>
           all == [k \in 1 .. Len(b.chunks) |-> chunk(k)]
<1>1. b \in Body
  BY DEF ServerResponse
<1>2. b.chunks \in Seq(Seq(Nat)) /\ b.trailer \in Seq(Nat)
  BY <1>1 DEF Body
<1>3. <<CR, LF>> \in Seq(Nat)
  BY DEF CR, LF
<1>4. Data(b) \in Seq(Nat)
  BY <1>2, ConcatType DEF Data
<1> HIDE DEF b
<1>5. ASSUME NEW k \in 1 .. Len(b.chunks) PROVE chunk(k) \in Seq(Nat)
  <2>1. b.chunks[k] \in Seq(Nat)
    BY <1>2
  <2>2. Len(b.chunks[k]) \in Nat
    BY <2>1
  <2>3. SizeLine(b, Len(b.chunks[k])) \in Seq(Nat)
    BY <1>1, <2>2, SizeLineType
  <2>4. SizeLine(b, Len(b.chunks[k])) \o b.chunks[k] \in Seq(Nat)
    BY <2>1, <2>3
  <2> QED
    BY <1>3, <2>4
<1> HIDE DEF chunk
<1>6. all \in Seq(Seq(Nat))
  <2>1. Len(b.chunks) \in Nat /\ all \in [1 .. Len(b.chunks) -> Seq(Nat)]
    BY <1>2, <1>5
  <2> HIDE DEF all
  <2> QED
    BY <2>1
<1>7. Chunks(b) = Concat(all) \o SizeLine(b, 0)
  BY DEF Chunks, chunk
<1> HIDE DEF all
<1>8. Concat(all) \in Seq(Nat) /\ SizeLine(b, 0) \in Seq(Nat)
  BY <1>1, <1>6, ConcatType, SizeLineType
<1>9. Chunks(b) \in Seq(Nat)
  BY <1>7, <1>8
<1>10. (Chunks(b) \o b.trailer) \o <<CR, LF>> \in Seq(Nat)
  <2>1. Chunks(b) \o b.trailer \in Seq(Nat)
    BY <1>2, <1>9
  <2> QED
    BY <1>3, <2>1
<1>11. BodyOf(r) = IF IsChunked(r) THEN (Chunks(b) \o b.trailer) \o <<CR, LF>> ELSE Data(b)
  BY DEF BodyOf, b
<1> QED
  BY <1>4, <1>10, <1>11

\* What http_parse_response takes for the body is a part of what arrived.
LEMMA ParsedBodyType ==
  ASSUME NEW d \in Seq(Nat)
  PROVE  http_parse_response(d).body \in Seq(Nat)
<1>1. HeaderLen(d) \in Nat
  <2>1. HeaderEnds(d) \subseteq Nat
    BY DEF HeaderEnds, LineEnds
  <2>2. CASE HeaderEnds(d) = {}
    BY <2>2 DEF HeaderLen
  <2>3. CASE HeaderEnds(d) # {}
    <3>1. Smallest(HeaderEnds(d)) \in Nat
      BY <2>1, <2>3, SmallestType
    <3> QED
      BY <2>3, <3>1 DEF HeaderLen
  <2> QED
    BY <2>2, <2>3
<1> DEFINE tail == SubSeq(d, HeaderLen(d) + 1, Len(d))
<1>2. tail \in Seq(Nat)
  <2>1. Len(d) \in Int /\ HeaderLen(d) + 1 \in Int
        /\ \A k \in (HeaderLen(d) + 1) .. Len(d) : d[k] \in Nat
    BY <1>1
  <2> QED
    BY <2>1, SubSeqProperties
<1>3. \A c : Refused(c).body \in Seq(Nat)
  BY DEF Refused
<1> DEFINE status == strtol(d, Smallest(Spaces(d)) + 1)
           parsed == [rc |-> 0, status_code |-> status, header_len |-> HeaderLen(d), body |-> tail]
           short  == \/ WidthOf(SubSeq(d, 1, Smallest(LineEnds(d, 0)))) < 12 \/ d[1] # Http
                     \/ Spaces(d) = {} \/ Smallest(Spaces(d)) >= Smallest(LineEnds(d, 0))
           wrong  == status < 100 \/ status > 999
<1>4. http_parse_response(d) \in {Refused(-1), Refused(-2), Refused(-3), parsed}
  <2>1. http_parse_response(d) =
          IF d = <<>> THEN Refused(-1)
          ELSE IF LineEnds(d, 0) = {} THEN Refused(-2)
          ELSE IF short THEN Refused(-2)
          ELSE IF wrong THEN Refused(-2)
          ELSE IF HeaderLen(d) = 0 THEN Refused(-3)
          ELSE parsed
    BY DEF http_parse_response
  <2> HIDE DEF short, wrong, parsed
  <2> QED
    BY <2>1
<1>5. parsed.body = tail
  OBVIOUS
<1> HIDE DEF tail, parsed
<1> QED
  BY <1>2, <1>3, <1>4, <1>5

(***************************************************************************)
(* What the decoder reads in a size line is the size.                      *)
(***************************************************************************)
\* The first characters of an extension are blanks, up to a semicolon.
BlanksBefore(e, m) ==
  /\ m \in 0 .. Len(e) /\ \A k \in 1 .. m : e[k] \in {Space, Tab}
  /\ m < Len(e) => e[m + 1] = Semicolon

\* What ServerAssumption says of a body.
PlainBody(b) ==
  /\ \A k \in 1 .. Len(b.chunks) : b.chunks[k] # <<>>
  /\ \A k \in 1 .. Len(b.extension) : b.extension[k] # CR
  /\ \E m \in Nat : BlanksBefore(b.extension, m)

\* A digit is the value it was written for.
LEMMA DigitValue ==
  ASSUME NEW x \in 0 .. 15
  PROVE  /\ hex_value(Digit(x)) = x /\ Digit(x) # CR
         /\ ~IsBlank(Digit(x)) /\ Digit(x) # Semicolon
<1>1. Digit(x) \in 48 .. 57 \cup 65 .. 70
      /\ (x < 10 => Digit(x) = 48 + x) /\ (x >= 10 => Digit(x) = 55 + x)
  BY DEF Digit
<1>2. hex_value(Digit(x)) = x
  BY <1>1 DEF hex_value
<1> QED
  BY <1>1, <1>2 DEF IsBlank, Semicolon, Space, Tab, CR

\* The line l is made of z zeros, c digits of n, m blanks and an extension; r[k] is
\* what is left of n without its last k digits.
SizeWritten(l, n, z, c, r, m) ==
  /\ l \in Seq(Nat) /\ Len(l) \in Nat /\ z \in Nat /\ c \in 1 .. (n + 1)
  /\ z + c + m <= Len(l)
  /\ \A k \in 1 .. Len(l) : l[k] # CR
  /\ \A k \in 1 .. z : ~IsBlank(l[k]) /\ hex_value(l[k]) = 0
  /\ \A j \in 1 .. c : ~IsBlank(l[z + j]) /\ hex_value(l[z + j]) = r[c - j] % 16
  /\ \A j \in 1 .. m : IsBlank(l[z + c + j])
  /\ \A k \in 1 .. (z + c + m) : l[k] # Semicolon
  /\ z + c + m < Len(l) => l[z + c + m + 1] = Semicolon

\* The characters of a size line.
LEMMA LineCharacters ==
  ASSUME NEW b \in Body, NEW n \in Nat, NEW m \in Nat, BlanksBefore(b.extension, m),
         \A k \in 1 .. Len(b.extension) : b.extension[k] # CR
  PROVE  SizeWritten(LineOf(b, n), n, b.zeros, DigitsOf(n), RestOf(n), m)
<1> DEFINE l == LineOf(b, n)
           z == b.zeros
           c == DigitsOf(n)
           e == b.extension
           f == RestOf(n)
<1>1. /\ l \in Seq(Nat) /\ z \in Nat /\ e \in Seq(Nat) /\ Len(l) = z + c + Len(e)
      /\ \A k \in 1 .. z : l[k] = Digit(0)
      /\ \A k \in 1 .. c : l[z + k] = HexDigits(n)[k]
      /\ \A k \in 1 .. Len(e) : l[z + c + k] = e[k]
  BY LineOfParts
<1>2. c \in 1 .. (n + 1) /\ \A k \in 0 .. (n + 1) : f[k] \in Nat
  BY RestType
<1>3. \A j \in 1 .. c : HexDigits(n)[j] = Digit(f[c - j] % 16)
  BY HexType
<1>4. Len(e) \in Nat /\ Len(l) \in Nat
  BY <1>1
<1>5. /\ m <= Len(e) /\ \A k \in 1 .. m : e[k] \in {Space, Tab}
      /\ m < Len(e) => e[m + 1] = Semicolon
      /\ \A k \in 1 .. Len(e) : e[k] # CR
  BY DEF BlanksBefore
<1> HIDE DEF l, z, c, e, f
<1>6. \A k \in 1 .. z : ~IsBlank(l[k]) /\ hex_value(l[k]) = 0 /\ l[k] # CR /\ l[k] # Semicolon
  BY <1>1, DigitValue, SMTT(30)
<1>7. ASSUME NEW j \in 1 .. c
      PROVE  /\ ~IsBlank(l[z + j]) /\ hex_value(l[z + j]) = f[c - j] % 16
             /\ l[z + j] # CR /\ l[z + j] # Semicolon
  <2>1. c - j \in 0 .. (n + 1)
    BY <1>2
  <2>2. f[c - j] % 16 \in 0 .. 15
    <3>1. PICK y \in Nat : y = f[c - j]
      BY <1>2, <2>1
    <3>2. y % 16 \in 0 .. 15
      OBVIOUS
    <3> QED
      BY <3>1, <3>2
  <2>3. l[z + j] = Digit(f[c - j] % 16)
    BY <1>1, <1>3
  <2> QED
    BY <2>2, <2>3, DigitValue
<1>8. ASSUME NEW j \in 1 .. m PROVE IsBlank(l[z + c + j]) /\ l[z + c + j] # Semicolon
  <2>1. l[z + c + j] = e[j] /\ e[j] \in {Space, Tab}
    BY <1>1, <1>4, <1>5
  <2> QED
    BY <2>1 DEF IsBlank, Space, Tab, Semicolon
<1>9. ASSUME NEW k \in 1 .. Len(l) PROVE l[k] # CR
  <2>1. CASE k <= z
    BY <1>6, <2>1
  <2>2. CASE z < k /\ k <= z + c
    <3>1. k - z \in 1 .. c /\ z + (k - z) = k
      BY <1>1, <1>2, <2>2
    <3> QED
      BY <1>7, <3>1
  <2>3. CASE z + c < k
    <3>1. z \in Nat /\ c \in Nat /\ Len(e) \in Nat /\ k \in Nat /\ k <= z + c + Len(e)
      BY <1>1, <1>2, <1>4
    <3>2. k - (z + c) \in 1 .. Len(e) /\ z + c + (k - (z + c)) = k
      BY <2>3, <3>1
    <3> QED
      BY <1>1, <1>5, <3>2
  <2> QED
    BY <1>1, <1>2, <2>1, <2>2, <2>3, SMTT(30)
<1>10. ASSUME NEW k \in 1 .. (z + c + m) PROVE l[k] # Semicolon
  <2>1. CASE k <= z
    BY <1>6, <2>1
  <2>2. CASE z < k /\ k <= z + c
    <3>1. k - z \in 1 .. c /\ z + (k - z) = k
      BY <1>1, <1>2, <2>2
    <3> QED
      BY <1>7, <3>1
  <2>3. CASE z + c < k
    <3>1. k - (z + c) \in 1 .. m /\ z + c + (k - (z + c)) = k
      BY <1>1, <1>2, <2>3, SMTT(30)
    <3> QED
      BY <1>8, <3>1
  <2> QED
    BY <1>1, <1>2, <2>1, <2>2, <2>3
<1>11. z + c + m < Len(l) => l[z + c + m + 1] = Semicolon
  <2> SUFFICES ASSUME z + c + m < Len(l) PROVE l[z + c + m + 1] = Semicolon
    OBVIOUS
  <2>1. m < Len(e) /\ m + 1 \in 1 .. Len(e) /\ z + c + (m + 1) = z + c + m + 1
    BY <1>1, <1>2, <1>4
  <2> QED
    BY <1>1, <1>5, <2>1
<1>12. z + c + m <= Len(l)
  BY <1>1, <1>2, <1>4, <1>5
<1> QED
  <2>1. SizeWritten(l, n, z, c, f, m)
    BY <1>1, <1>2, <1>4, <1>6, <1>7, <1>8, <1>9, <1>10, <1>11, <1>12 DEF SizeWritten
  <2> QED
    BY <2>1 DEF l, z, c, f

\* One digit more, of a size that fits.
LEMMA DigitFits ==
  ASSUME NEW x \in Nat, x <= SizeMax, SizeMax \in Nat
  PROVE  x \div 16 \in Nat /\ x % 16 \in 0 .. 15 /\ AddDigit(x \div 16, x % 16) = x
<1>1. PICK q \in Nat, d \in 0 .. 15 : x = q * 16 + d /\ q = x \div 16 /\ d = x % 16
  <2>1. x \div 16 \in Nat
    OBVIOUS
  <2>2. x % 16 \in 0 .. 15
    OBVIOUS
  <2>3. x = (x \div 16) * 16 + (x % 16)
    OBVIOUS
  <2> QED
    BY <2>1, <2>2, <2>3
<1>2. q <= (SizeMax - d) \div 16
  BY <1>1
<1>3. AddDigit(q, d) = q * 16 + d
  BY <1>1, <1>2 DEF AddDigit, Overflowed
<1> QED
  BY <1>1, <1>3

\* parse_chunk_size reads the size that a line was made for, and the line has no
\* carriage return in it.
LEMMA SizeLineRead ==
  ASSUME NEW b \in Body, PlainBody(b), NEW n \in Nat, n <= SizeMax, SizeMax \in Nat
  PROVE  /\ LineOf(b, n) \in Seq(Nat) /\ parse_chunk_size(LineOf(b, n)) = n
         /\ \A k \in 1 .. Len(LineOf(b, n)) : LineOf(b, n)[k] # CR
<1>1. PICK m \in Nat : BlanksBefore(b.extension, m)
  BY DEF PlainBody
<1> DEFINE l == LineOf(b, n)
           z == b.zeros
           c == DigitsOf(n)
           r == RestOf(n)
           q == z + c + m
<1>2. /\ l \in Seq(Nat) /\ Len(l) \in Nat /\ z \in Nat /\ c \in 1 .. (n + 1)
      /\ z + c + m <= Len(l)
      /\ \A k \in 1 .. Len(l) : l[k] # CR
      /\ \A k \in 1 .. z : ~IsBlank(l[k]) /\ hex_value(l[k]) = 0
      /\ \A j \in 1 .. c : ~IsBlank(l[z + j]) /\ hex_value(l[z + j]) = r[c - j] % 16
      /\ \A j \in 1 .. m : IsBlank(l[z + c + j])
      /\ \A k \in 1 .. (z + c + m) : l[k] # Semicolon
      /\ z + c + m < Len(l) => l[z + c + m + 1] = Semicolon
  <2>1. \A k \in 1 .. Len(b.extension) : b.extension[k] # CR
    BY DEF PlainBody
  <2> QED
    <3>1. SizeWritten(l, n, z, c, r, m)
      BY <1>1, <2>1, LineCharacters
    <3> HIDE DEF l, z, c, r
    <3> QED
      BY <3>1 DEF SizeWritten
<1>3. /\ r[0] = n /\ r[c] = 0
      /\ \A k \in 0 .. (n + 1) : r[k] \in Nat /\ r[k] <= n
      /\ \A k \in 1 .. (n + 1) : r[k] = r[k - 1] \div 16
  BY RestType
<1> HIDE DEF l, z, c, r
<1>4. q \in Nat /\ q <= Len(l) /\ c \in Nat /\ c >= 1
  BY <1>2
<1>5. SizeLen(l) = q
  <2> DEFINE P(s) == /\ s < Len(l) => l[s + 1] = Semicolon
                     /\ \A k \in 1 .. s : l[k] # Semicolon
  <2>1. q \in 0 .. Len(l) /\ P(q)
    BY <1>2, <1>4
  <2>2. ASSUME NEW s \in 0 .. Len(l), P(s) PROVE s = q
    <3>1. ~(s < q)
      <4> SUFFICES ASSUME s < q PROVE FALSE
        OBVIOUS
      <4>1. s + 1 \in 1 .. q /\ s < Len(l)
        BY <1>2, <1>4
      <4> QED
        BY <2>1, <2>2, <4>1
    <3>2. ~(q < s)
      <4> SUFFICES ASSUME q < s PROVE FALSE
        OBVIOUS
      <4>1. q + 1 \in 1 .. s /\ q < Len(l)
        BY <1>2, <1>4
      <4> QED
        BY <2>1, <2>2, <4>1
    <3> QED
      BY <1>4, <3>1, <3>2
  <2>3. SizeLen(l) = CHOOSE s \in 0 .. Len(l) : P(s)
    BY DEF SizeLen
  <2> HIDE DEF P
  <2> QED
    BY <2>1, <2>2, <2>3
<1> HIDE DEF q
<1> DEFINE f == CHOOSE u : Checked(u, l, q)
<1>6. parse_chunk_size(l) = IF \A k \in 1 .. q : IsBlank(l[k]) THEN -1 ELSE f[q]
  BY <1>5 DEF parse_chunk_size, Checked
<1>7. Checked(f, l, q)
  BY <1>4, CheckedExists
<1> HIDE DEF f
<1>8. \A k \in 0 .. q : f[k] = IF k = 0 THEN 0 ELSE CheckedStep(l, k, f[k - 1])
  BY <1>7 DEF Checked, CheckedStep
<1> DEFINE value(k) == IF k <= z THEN 0 ELSE IF k <= z + c THEN r[c - (k - z)] ELSE n
           S == {k \in Nat : k <= q => f[k] = value(k)}
<1>9. 0 \in S
  BY <1>2, <1>4, <1>8
<1>10. ASSUME NEW k \in Nat, k \in S PROVE k + 1 \in S
  <2> SUFFICES ASSUME k + 1 <= q PROVE f[k + 1] = value(k + 1)
    OBVIOUS
  <2>1. f[k + 1] = CheckedStep(l, k + 1, f[k])
    <3>1. k + 1 \in 0 .. q /\ k + 1 # 0 /\ (k + 1) - 1 = k
      BY <1>4
    <3> QED
      BY <1>8, <3>1
  <2>2. f[k] = value(k)
    BY <1>4, <1>10
  <2>3. CASE k + 1 <= z
    <3>1. f[k] = 0 /\ value(k + 1) = 0 /\ ~IsBlank(l[k + 1]) /\ hex_value(l[k + 1]) = 0
      BY <1>2, <2>2, <2>3
    <3>2. AddDigit(0, 0) = 0
      <4>1. ~(0 > (SizeMax - 0) \div 16)
        OBVIOUS
      <4> QED
        BY <4>1 DEF AddDigit, Overflowed
    <3> QED
      BY <2>1, <3>1, <3>2 DEF CheckedStep
  <2>4. CASE z < k + 1 /\ k + 1 <= z + c
    <3> DEFINE j == (k + 1) - z
    <3>1. j \in 1 .. c /\ z + j = k + 1 /\ c - j \in 0 .. (n + 1)
          /\ (c - j) + 1 \in 1 .. (n + 1) /\ ((c - j) + 1) - 1 = c - j
      BY <1>2, <1>4, <2>4
    <3>2. f[k] = r[(c - j) + 1]
      <4>1. CASE k = z
        <5>1. (c - j) + 1 = c
          BY <1>2, <1>4, <4>1
        <5> QED
          BY <1>2, <1>3, <2>2, <4>1, <5>1
      <4>2. CASE k # z
        <5>1. ~(k <= z) /\ k <= z + c /\ c - (k - z) = (c - j) + 1
          BY <1>2, <1>4, <2>4, <4>2
        <5> QED
          BY <2>2, <5>1
      <4> QED
        BY <4>1, <4>2
    <3>3. value(k + 1) = r[c - j]
      BY <1>2, <2>4
    <3> HIDE DEF j
    <3>4. PICK x \in Nat : x = r[c - j] /\ x <= n
      BY <1>3, <3>1
    <3>5. f[k] = x \div 16
      <4>1. r[(c - j) + 1] = r[((c - j) + 1) - 1] \div 16
        BY <1>3, <3>1
      <4> QED
        BY <3>1, <3>2, <3>4, <4>1
    <3>6. ~IsBlank(l[k + 1]) /\ hex_value(l[k + 1]) = x % 16
      BY <1>2, <3>1, <3>4
    <3>7. AddDigit(x \div 16, x % 16) = x
      <4>1. x <= SizeMax
        BY <3>4
      <4> QED
        BY <4>1, DigitFits
    <3> QED
      BY <2>1, <3>3, <3>4, <3>5, <3>6, <3>7 DEF CheckedStep
  <2>5. CASE z + c < k + 1
    <3> DEFINE j == (k + 1) - (z + c)
    <3>1. j \in 1 .. m /\ z + c + j = k + 1
      BY <1>2, <1>4, <2>5 DEF q
    <3>2. IsBlank(l[k + 1])
      BY <1>2, <3>1
    <3>3. value(k) = n /\ value(k + 1) = n
      <4>1. ~(k <= z) /\ ~(k + 1 <= z) /\ ~(k + 1 <= z + c)
        BY <1>2, <1>4, <2>5
      <4>2. CASE k = z + c
        <5>1. c - (k - z) = 0 /\ k <= z + c
          BY <1>2, <1>4, <4>2
        <5> QED
          BY <1>3, <4>1, <5>1
      <4>3. CASE k # z + c
        <5>1. ~(k <= z + c)
          BY <1>2, <1>4, <2>5, <4>3
        <5> QED
          BY <4>1, <5>1
      <4> QED
        BY <4>2, <4>3
    <3> HIDE DEF value
    <3> QED
      BY <2>1, <2>2, <3>2, <3>3 DEF CheckedStep
  <2> QED
    BY <1>2, <1>4, <2>3, <2>4, <2>5
<1>11. f[q] = n
  <2>1. q \in S
    <3> HIDE DEF S
    <3> QED
      BY <1>4, <1>9, <1>10, SetInduction
  <2>2. f[q] = value(q)
    BY <1>4, <2>1
  <2>3. value(q) = n
    <3>1. ~(q <= z) /\ z + c <= q
      BY <1>2, <1>4 DEF q
    <3>2. q <= z + c => c - (q - z) = 0
      BY <1>2, <1>4, <3>1
    <3> QED
      BY <1>3, <3>1, <3>2
  <2> QED
    BY <2>2, <2>3
<1>12. z + 1 \in 1 .. q /\ ~IsBlank(l[z + 1])
  BY <1>2, <1>4 DEF q
<1> QED
  BY <1>2, <1>6, <1>11, <1>12 DEF l

(***************************************************************************)
(* Where the parts of a list of sequences lie when they are joined.        *)
(***************************************************************************)
\* The first sequences of a list, joined.
JoinedTo(seqs) == CHOOSE f : Joins(f, seqs)

\* Where the first k of them end.
EndOf(seqs, k) == Len(JoinedTo(seqs)[k])

\* Each lies where those before it end.
LEMMA ConcatLayout ==
  ASSUME NEW seqs \in Seq(Seq(Nat))
  PROVE  /\ Len(seqs) \in Nat /\ Concat(seqs) \in Seq(Nat)
         /\ Concat(seqs) = JoinedTo(seqs)[Len(seqs)] /\ Len(Concat(seqs)) = EndOf(seqs, Len(seqs))
         /\ JoinedTo(seqs)[0] = <<>> /\ EndOf(seqs, 0) = 0
         /\ \A k \in 0 .. Len(seqs) : JoinedTo(seqs)[k] \in Seq(Nat) /\ EndOf(seqs, k) \in Nat
         /\ \A k \in 1 .. Len(seqs) : /\ seqs[k] \in Seq(Nat)
                                      /\ JoinedTo(seqs)[k] = JoinedTo(seqs)[k - 1] \o seqs[k]
                                      /\ EndOf(seqs, k) = EndOf(seqs, k - 1) + Len(seqs[k])
         /\ \A k \in 1 .. Len(seqs) : Occurs(Concat(seqs), EndOf(seqs, k - 1), seqs[k])
<1> DEFINE f == JoinedTo(seqs)
           n == Len(seqs)
<1>1. n \in Nat /\ \A k \in 1 .. n : seqs[k] \in Seq(Nat)
  OBVIOUS
<1>2. Joins(f, seqs)
  BY <1>1, JoinsExists DEF JoinedTo
<1>3. Concat(seqs) = f[n]
  BY DEF Concat, Joins, JoinedTo
<1> HIDE DEF f
<1>4. f[0] = <<>> /\ \A k \in 1 .. n : f[k] = f[k - 1] \o seqs[k]
  <2>1. \A k \in 0 .. n : f[k] = IF k = 0 THEN <<>> ELSE f[k - 1] \o seqs[k]
    BY <1>2 DEF Joins
  <2> HIDE DEF n
  <2>2. 0 \in 0 .. n /\ \A k \in 1 .. n : k \in 0 .. n /\ k # 0
    BY <1>1
  <2> QED
    BY <2>1, <2>2, Zenon
<1> DEFINE Parts(m) == /\ f[m] \in Seq(Nat)
                       /\ \A k \in 1 .. m : f[k - 1] \in Seq(Nat) /\ Occurs(f[m], Len(f[k - 1]), seqs[k])
           S == {m \in Nat : m <= n => Parts(m)}
<1> HIDE DEF n
<1>5. 0 \in S
  <2>1. f[0] \in Seq(Nat)
    BY <1>4
  <2> QED
    BY <2>1
<1>6. ASSUME NEW m \in Nat, m \in S PROVE m + 1 \in S
  <2> SUFFICES ASSUME m + 1 <= n PROVE Parts(m + 1)
    OBVIOUS
  <2>1. m <= n /\ m + 1 \in 1 .. n /\ (m + 1) - 1 = m
    BY <1>1
  <2>2. Parts(m)
    BY <1>6, <2>1
  <2>3. f[m] \in Seq(Nat) /\ seqs[m + 1] \in Seq(Nat) /\ f[m + 1] = f[m] \o seqs[m + 1]
    BY <1>1, <1>4, <2>1, <2>2
  <2>4. /\ f[m + 1] \in Seq(Nat) /\ Occurs(f[m + 1], Len(f[m]), seqs[m + 1])
        /\ \A x \in Seq(Nat) : \A o : Occurs(f[m], o, x) => Occurs(f[m + 1], o, x)
    BY <2>3, Joined
  <2>5. ASSUME NEW k \in 1 .. (m + 1)
        PROVE  f[k - 1] \in Seq(Nat) /\ Occurs(f[m + 1], Len(f[k - 1]), seqs[k])
    <3>1. CASE k = m + 1
      BY <2>1, <2>3, <2>4, <3>1
    <3>2. CASE k # m + 1
      <4>1. k \in 1 .. m /\ k \in 1 .. n
        BY <1>1, <2>1, <3>2
      <4>2. f[k - 1] \in Seq(Nat) /\ Occurs(f[m], Len(f[k - 1]), seqs[k]) /\ seqs[k] \in Seq(Nat)
        BY <1>1, <2>2, <4>1
      <4> QED
        BY <2>4, <4>2
    <3> QED
      BY <3>1, <3>2
  <2> QED
    BY <2>4, <2>5
<1>7. \A m \in 0 .. n : Parts(m)
  <2>1. Nat \subseteq S
    <3> HIDE DEF S
    <3> QED
      BY <1>5, <1>6, SetInduction
  <2> QED
    BY <1>1, <2>1
<1>8. \A k \in 0 .. n : f[k] \in Seq(Nat) /\ Len(f[k]) \in Nat
  <2>1. \A k \in 0 .. n : f[k] \in Seq(Nat)
    BY <1>7
  <2> HIDE DEF Parts
  <2>2. \A s \in Seq(Nat) : Len(s) \in Nat
    OBVIOUS
  <2> QED
    BY <2>1, <2>2
<1>9. ASSUME NEW k \in 1 .. n PROVE Len(f[k]) = Len(f[k - 1]) + Len(seqs[k])
  <2>1. k - 1 \in 0 .. n
    BY <1>1
  <2>2. f[k - 1] \in Seq(Nat) /\ seqs[k] \in Seq(Nat) /\ f[k] = f[k - 1] \o seqs[k]
    BY <1>1, <1>4, <1>8, <2>1
  <2> QED
    BY <2>2, Joined
<1>10. n \in 0 .. n
  BY <1>1
<1>11. Parts(n)
  BY <1>7, <1>10
<1>12. Len(f[0]) = 0
  BY <1>4
<1> QED
  BY <1>1, <1>3, <1>4, <1>8, <1>9, <1>11, <1>12 DEF EndOf, f, n

\* Where a sequence ends is behind where those before it end.
LEMMA EndsGrow ==
  ASSUME NEW seqs \in Seq(Seq(Nat)), NEW i \in 0 .. Len(seqs), NEW j \in 0 .. Len(seqs), i <= j
  PROVE  /\ EndOf(seqs, i) <= EndOf(seqs, j)
         /\ (\A k \in 1 .. Len(seqs) : seqs[k] # <<>>) /\ i < j => EndOf(seqs, i) < EndOf(seqs, j)
<1> DEFINE n == Len(seqs)
           E(k) == EndOf(seqs, k)
           Full == \A k \in 1 .. n : seqs[k] # <<>>
<1>1. n \in Nat /\ \A k \in 0 .. n : E(k) \in Nat
  BY ConcatLayout
<1>2. ASSUME NEW k \in 1 .. n PROVE E(k - 1) <= E(k) /\ (Full => E(k - 1) < E(k))
  <2>1. k - 1 \in 0 .. n /\ k \in 0 .. n
    BY <1>1
  <2>2. E(k) = E(k - 1) + Len(seqs[k]) /\ seqs[k] \in Seq(Nat) /\ E(k - 1) \in Nat
    BY <2>1, ConcatLayout
  <2>3. Len(seqs[k]) \in Nat /\ (seqs[k] # <<>> => Len(seqs[k]) > 0)
    BY <2>2, EmptySeq
  <2>4. Full => Len(seqs[k]) > 0
    BY <2>3
  <2> HIDE DEF E, Full
  <2> QED
    BY <2>2, <2>3, <2>4
<1> HIDE DEF E, Full
<1> DEFINE S == {d \in Nat : i + d <= n => /\ E(i) <= E(i + d)
                                           /\ Full /\ d > 0 => E(i) < E(i + d)}
<1> HIDE DEF n
<1>3. 0 \in S
  BY <1>1 DEF n
<1>4. ASSUME NEW d \in Nat, d \in S PROVE d + 1 \in S
  <2> SUFFICES ASSUME i + (d + 1) <= n
               PROVE  E(i) <= E(i + (d + 1)) /\ (Full => E(i) < E(i + (d + 1)))
    OBVIOUS
  <2>1. i \in Nat
    OBVIOUS
  <2>2. i + d <= n /\ i + (d + 1) \in 1 .. n /\ (i + (d + 1)) - 1 = i + d
        /\ i + d \in 0 .. n /\ i + (d + 1) \in 0 .. n /\ i \in 0 .. n
    BY <1>1, <2>1 DEF n
  <2>3. E(i) <= E(i + d)
    BY <1>4, <2>2
  <2>4. E(i + d) <= E(i + (d + 1)) /\ (Full => E(i + d) < E(i + (d + 1)))
    BY <1>2, <2>2
  <2>5. E(i) \in Nat /\ E(i + d) \in Nat /\ E(i + (d + 1)) \in Nat
    BY <1>1, <2>2
  <2> QED
    BY <2>3, <2>4, <2>5
<1>5. Nat \subseteq S
  <2> HIDE DEF S
  <2> QED
    BY <1>3, <1>4, SetInduction
<1>6. j - i \in Nat /\ i + (j - i) = j /\ j <= n
  BY <1>1 DEF n
<1>7. j - i \in S
  BY <1>5, <1>6
<1>8. E(i) <= E(j) /\ (Full /\ j - i > 0 => E(i) < E(j))
  BY <1>6, <1>7
<1>9. i < j => j - i > 0
  OBVIOUS
<1> QED
  BY <1>8, <1>9 DEF E, Full, n

(***************************************************************************)
(* The head: its lines, and where they end.                                *)
(***************************************************************************)
\* The header lines of a response.
FieldsOf(r) ==
  [k \in 1 .. Len(r.headers) |->
     <<r.headers[k].name, Colon>> \o r.headers[k].value \o <<CR, LF>>]

\* How many there are, and what the k-th says.
Count(r)      == Len(r.headers)
NameOf(r, k)  == r.headers[k].name
ValueOf(r, k) == r.headers[k].value

\* Where the k-th ends; the status line is the line 0.
FieldEnd(r, k) == Len(r.start) + 2 + EndOf(FieldsOf(r), k)

\* A header line, character by character.
LEMMA FieldLayout ==
  ASSUME NEW r \in ServerResponse, NEW k \in 1 .. Count(r)
  PROVE  LET v == ValueOf(r, k)
             f == FieldsOf(r)[k]
         IN  /\ NameOf(r, k) \in Nat /\ v \in Seq(Nat) /\ f \in Seq(Nat) /\ Len(f) = Len(v) + 4
             /\ f[1] = NameOf(r, k) /\ f[2] = Colon /\ f[Len(v) + 3] = CR /\ f[Len(v) + 4] = LF
             /\ \A j \in 1 .. Len(v) : f[2 + j] = v[j]
<1> DEFINE v == ValueOf(r, k)
           m == NameOf(r, k)
           a == <<m, Colon>>
           z == <<CR, LF>>
           f == FieldsOf(r)[k]
<1>1. m \in Nat /\ v \in Seq(Nat)
  <2>1. r.headers \in Seq(HeaderField)
    BY DEF ServerResponse
  <2>2. r.headers[k] \in HeaderField
    BY <2>1 DEF Count
  <2> QED
    BY <2>2 DEF HeaderField, NameOf, ValueOf
<1>2. f = (a \o v) \o z
  BY DEF FieldsOf, Count, NameOf, ValueOf
<1> HIDE DEF m, v, f
<1>3. a \in Seq(Nat) /\ Len(a) = 2 /\ a[1] = m /\ a[2] = Colon
  BY <1>1 DEF Colon
<1>4. z \in Seq(Nat) /\ Len(z) = 2 /\ z[1] = CR /\ z[2] = LF
  BY DEF CR, LF
<1> HIDE DEF a, z
<1>5. /\ a \o v \in Seq(Nat) /\ Len(a \o v) = Len(a) + Len(v)
      /\ Occurs(a \o v, 0, a) /\ Occurs(a \o v, Len(a), v)
  BY <1>1, <1>3, Joined
<1>6. /\ f \in Seq(Nat) /\ Len(f) = Len(a \o v) + Len(z)
      /\ Occurs(f, 0, a) /\ Occurs(f, Len(a), v) /\ Occurs(f, Len(a \o v), z)
  <2> HIDE DEF z
  <2>1. \A x \in Seq(Nat) : \A o : Occurs(a \o v, o, x) => Occurs((a \o v) \o z, o, x)
    BY <1>4, <1>5, Joined
  <2>2. /\ (a \o v) \o z \in Seq(Nat) /\ Len((a \o v) \o z) = Len(a \o v) + Len(z)
        /\ Occurs((a \o v) \o z, Len(a \o v), z)
    BY <1>4, <1>5, Joined
  <2>3. Occurs((a \o v) \o z, 0, a) /\ Occurs((a \o v) \o z, Len(a), v)
    BY <1>1, <1>3, <1>5, <2>1
  <2> QED
    BY <1>2, <2>2, <2>3, Zenon
<1>7. /\ \A j \in 1 .. Len(a) : f[0 + j] = a[j]
      /\ \A j \in 1 .. Len(v) : f[Len(a) + j] = v[j]
      /\ \A j \in 1 .. Len(z) : f[Len(a \o v) + j] = z[j]
  BY <1>6 DEF Occurs
<1>8. Len(v) \in Nat
  BY <1>1
<1>9. Len(a \o v) = Len(v) + 2
  BY <1>3, <1>5, <1>8
<1>10. Len(f) = Len(v) + 4
  BY <1>4, <1>6, <1>8, <1>9
<1>11. f[0 + 1] = a[1] /\ f[0 + 2] = a[2]
  BY <1>3, <1>7
<1>12. f[Len(v) + 2 + 1] = z[1] /\ f[Len(v) + 2 + 2] = z[2]
  <2>1. 1 \in 1 .. Len(z) /\ 2 \in 1 .. Len(z)
    BY <1>4
  <2> QED
    BY <1>7, <1>9, <2>1
<1>13. Len(v) + 2 + 1 = Len(v) + 3 /\ Len(v) + 2 + 2 = Len(v) + 4
  BY <1>8
<1> QED
  BY <1>1, <1>3, <1>4, <1>6, <1>7, <1>10, <1>11, <1>12, <1>13 DEF m, v, f

\* The header lines are a list of sequences, none empty.
LEMMA FieldsType ==
  ASSUME NEW r \in ServerResponse
  PROVE  /\ FieldsOf(r) \in Seq(Seq(Nat)) /\ Len(FieldsOf(r)) = Count(r) /\ Count(r) \in Nat
         /\ \A k \in 1 .. Count(r) : FieldsOf(r)[k] # <<>>
<1> DEFINE n == Count(r)
           F == FieldsOf(r)
<1>1. n \in Nat
  <2>1. r.headers \in Seq(HeaderField)
    BY DEF ServerResponse
  <2> QED
    BY <2>1 DEF Count
<1>2. ASSUME NEW k \in 1 .. n PROVE F[k] \in Seq(Nat) /\ F[k] # <<>>
  <2>1. ValueOf(r, k) \in Seq(Nat) /\ F[k] \in Seq(Nat) /\ Len(F[k]) = Len(ValueOf(r, k)) + 4
    BY FieldLayout
  <2> HIDE DEF F
  <2>2. Len(ValueOf(r, k)) \in Nat
    BY <2>1
  <2>3. Len(F[k]) # 0
    BY <2>1, <2>2
  <2> QED
    BY <2>1, <2>3
<1>3. DOMAIN F = 1 .. n /\ F = [k \in 1 .. n |-> F[k]]
  BY DEF FieldsOf, Count
<1> HIDE DEF F, n
<1>4. F \in [1 .. n -> Seq(Nat)]
  BY <1>2, <1>3
<1>5. F \in Seq(Seq(Nat)) /\ Len(F) = n
  BY <1>1, <1>4
<1> QED
  BY <1>1, <1>2, <1>5 DEF F, n

\* The head, character by character.
HeadWritten(h, r) ==
  /\ h \in Seq(Nat) /\ Len(h) \in Nat /\ Count(r) \in Nat
  /\ r.start \in Seq(Nat) /\ Len(r.start) \in Nat
  /\ FieldEnd(r, 0) = Len(r.start) + 2 /\ Len(h) = FieldEnd(r, Count(r)) + 2
  /\ \A j \in 1 .. Len(r.start) : h[j] = r.start[j]
  /\ \A k \in 0 .. Count(r) : /\ FieldEnd(r, k) \in Nat /\ FieldEnd(r, k) >= 2
                              /\ h[FieldEnd(r, k) - 1] = CR /\ h[FieldEnd(r, k)] = LF
  /\ h[FieldEnd(r, Count(r)) + 1] = CR /\ h[FieldEnd(r, Count(r)) + 2] = LF

\* Its header lines.
LinesWritten(h, r) ==
  \A k \in 1 .. Count(r) :
    /\ NameOf(r, k) \in Nat /\ ValueOf(r, k) \in Seq(Nat) /\ Len(ValueOf(r, k)) \in Nat
    /\ FieldEnd(r, k) = FieldEnd(r, k - 1) + Len(ValueOf(r, k)) + 4
    /\ h[FieldEnd(r, k - 1) + 1] = NameOf(r, k) /\ h[FieldEnd(r, k - 1) + 2] = Colon
    /\ \A j \in 1 .. Len(ValueOf(r, k)) : h[FieldEnd(r, k - 1) + 2 + j] = ValueOf(r, k)[j]

\* Where everything lies in the head.
LEMMA HeadLayout ==
  ASSUME NEW r \in ServerResponse
  PROVE  /\ HeadWritten(HeadOf(r), r) /\ LinesWritten(HeadOf(r), r)
         /\ \A i, j \in 0 .. Count(r) : i < j => FieldEnd(r, i) < FieldEnd(r, j)
<1> DEFINE s == r.start
           z == <<CR, LF>>
           F == FieldsOf(r)
           n == Count(r)
           c == Concat(F)
           h == HeadOf(r)
           E(k) == EndOf(F, k)
           FE(k) == FieldEnd(r, k)
<1>1. s \in Seq(Nat) /\ F \in Seq(Seq(Nat)) /\ Len(F) = n /\ n \in Nat
      /\ \A k \in 1 .. n : F[k] # <<>>
  BY FieldsType DEF ServerResponse
<1>2. h = ((s \o z) \o c) \o z
  BY DEF HeadOf, FieldsOf
<1>3. z \in Seq(Nat) /\ Len(z) = 2 /\ z[1] = CR /\ z[2] = LF
  BY DEF CR, LF
<1> HIDE DEF z, F, n, h, s
<1>4. /\ c \in Seq(Nat) /\ Len(c) = E(n) /\ E(0) = 0
      /\ \A k \in 0 .. n : E(k) \in Nat
      /\ \A k \in 1 .. n : F[k] \in Seq(Nat) /\ E(k) = E(k - 1) + Len(F[k])
      /\ \A k \in 1 .. n : Occurs(c, E(k - 1), F[k])
  BY <1>1, ConcatLayout
<1>5. \A i, j \in 0 .. n : i < j => E(i) < E(j)
  <2> SUFFICES ASSUME NEW i \in 0 .. n, NEW j \in 0 .. n, i < j PROVE E(i) < E(j)
    OBVIOUS
  <2>1. i <= j
    BY <1>1
  <2> HIDE DEF E
  <2> QED
    BY <1>1, <2>1, EndsGrow DEF E
<1> HIDE DEF c
<1> DEFINE p == s \o z
           q == p \o c
<1>6. p \in Seq(Nat) /\ Len(p) = Len(s) + Len(z) /\ Occurs(p, 0, s) /\ Occurs(p, Len(s), z)
  BY <1>1, <1>3, Joined
<1> HIDE DEF p
<1>7. /\ q \in Seq(Nat) /\ Len(q) = Len(p) + Len(c) /\ Occurs(q, Len(p), c)
      /\ \A x \in Seq(Nat) : \A o : Occurs(p, o, x) => Occurs(q, o, x)
  BY <1>4, <1>6, Joined
<1> HIDE DEF q
<1>8. /\ h \in Seq(Nat) /\ Len(h) = Len(q) + Len(z) /\ Occurs(h, Len(q), z)
      /\ \A x \in Seq(Nat) : \A o : Occurs(q, o, x) => Occurs(h, o, x)
  <2>1. h = q \o z
    BY <1>2 DEF q, p
  <2> QED
    BY <1>3, <1>7, <2>1, Joined
<1>9. Occurs(h, 0, s) /\ Occurs(h, Len(s), z) /\ Occurs(h, Len(p), c)
  BY <1>1, <1>3, <1>4, <1>6, <1>7, <1>8
<1>10. /\ Len(s) \in Nat /\ Len(p) = Len(s) + 2 /\ Len(h) \in Nat /\ Len(c) \in Nat
       /\ Len(q) = Len(s) + 2 + E(n) /\ Len(h) = Len(s) + 2 + E(n) + 2
  <2>1. Len(s) \in Nat /\ Len(c) \in Nat /\ Len(h) \in Nat
    BY <1>1, <1>4, <1>8
  <2>2. Len(p) = Len(s) + 2
    BY <1>3, <1>6, <2>1
  <2>3. Len(q) = Len(s) + 2 + E(n)
    BY <1>4, <1>7, <2>1, <2>2
  <2> QED
    BY <1>3, <1>4, <1>8, <2>1, <2>2, <2>3
<1>11. \A k : FE(k) = Len(s) + 2 + E(k)
  BY DEF FieldEnd, F, s
<1> HIDE DEF E, FE
<1>12. \A k \in 0 .. n : FE(k) \in Nat /\ FE(k) >= 2
  BY <1>4, <1>10, <1>11
<1>13. FE(0) = Len(s) + 2 /\ Len(h) = FE(n) + 2
  BY <1>4, <1>10, <1>11
<1>14. \A j \in 1 .. Len(s) : h[j] = s[j]
  <2>1. \A j \in 1 .. Len(s) : h[0 + j] = s[j]
    BY <1>9 DEF Occurs
  <2> QED
    BY <1>10, <2>1
<1>15. h[FE(0) - 1] = CR /\ h[FE(0)] = LF
  <2>1. h[Len(s) + 1] = CR /\ h[Len(s) + 2] = LF
    BY <1>3, <1>9 DEF Occurs
  <2>2. FE(0) - 1 = Len(s) + 1
    BY <1>10, <1>13
  <2> QED
    BY <1>13, <2>1, <2>2
<1>16. h[FE(n) + 1] = CR /\ h[FE(n) + 2] = LF
  <2>1. h[Len(q) + 1] = CR /\ h[Len(q) + 2] = LF
    BY <1>3, <1>8 DEF Occurs
  <2> QED
    BY <1>10, <1>11, <2>1
<1>17. ASSUME NEW k \in 1 .. n
       PROVE  /\ NameOf(r, k) \in Nat /\ ValueOf(r, k) \in Seq(Nat) /\ Len(ValueOf(r, k)) \in Nat
              /\ FE(k) = FE(k - 1) + Len(ValueOf(r, k)) + 4
              /\ h[FE(k - 1) + 1] = NameOf(r, k) /\ h[FE(k - 1) + 2] = Colon
              /\ \A j \in 1 .. Len(ValueOf(r, k)) : h[FE(k - 1) + 2 + j] = ValueOf(r, k)[j]
              /\ h[FE(k) - 1] = CR /\ h[FE(k)] = LF
  <2> DEFINE v == ValueOf(r, k)
             m == NameOf(r, k)
             f == F[k]
             o == FE(k - 1)
  <2>1. /\ m \in Nat /\ v \in Seq(Nat) /\ f \in Seq(Nat) /\ Len(f) = Len(v) + 4
        /\ f[1] = m /\ f[2] = Colon /\ f[Len(v) + 3] = CR /\ f[Len(v) + 4] = LF
        /\ \A j \in 1 .. Len(v) : f[2 + j] = v[j]
    BY FieldLayout DEF F, n
  <2>2. Occurs(c, E(k - 1), f) /\ E(k) = E(k - 1) + Len(f)
    BY <1>4
  <2>3. k - 1 \in 0 .. n
    BY <1>1
  <2>4. Len(p) + E(k - 1) = o /\ o \in Nat
    BY <1>10, <1>11, <1>12, <2>3
  <2> HIDE DEF v, m, f, o
  <2>5. Len(f) \in Nat /\ Len(v) \in Nat
    BY <2>1
  <2>6. Occurs(h, o, f)
    <3>1. Occurs(h, Len(p) + E(k - 1), f)
      BY <1>9, <1>10, <2>2, <2>5, OccursIn
    <3> QED
      BY <2>4, <3>1
  <2>7. \A j \in 1 .. Len(f) : h[o + j] = f[j]
    BY <2>6 DEF Occurs
  <2>8. FE(k) = o + Len(v) + 4
    <3>1. FE(k) = Len(s) + 2 + E(k) /\ E(k - 1) \in Nat
      BY <1>4, <1>11, <2>3
    <3>2. o = Len(s) + 2 + E(k - 1) /\ E(k) = E(k - 1) + (Len(v) + 4)
      BY <1>10, <2>1, <2>2, <2>4
    <3>3. Len(s) \in Nat
      BY <1>10
    <3> QED
      BY <2>5, <3>1, <3>2, <3>3
  <2>9. h[o + 1] = m /\ h[o + 2] = Colon
    BY <2>1, <2>5, <2>7
  <2>10. \A j \in 1 .. Len(v) : h[o + 2 + j] = v[j]
    <3> SUFFICES ASSUME NEW j \in 1 .. Len(v) PROVE h[o + 2 + j] = v[j]
      OBVIOUS
    <3>1. 2 + j \in 1 .. Len(f) /\ o + (2 + j) = o + 2 + j
      BY <2>1, <2>4, <2>5
    <3> QED
      BY <2>1, <2>7, <3>1
  <2>11. h[FE(k) - 1] = CR /\ h[FE(k)] = LF
    <3>1. Len(v) + 3 \in 1 .. Len(f) /\ o + (Len(v) + 3) = FE(k) - 1
          /\ Len(v) + 4 \in 1 .. Len(f) /\ o + (Len(v) + 4) = FE(k)
      BY <2>1, <2>4, <2>5, <2>8
    <3> QED
      BY <2>1, <2>7, <3>1
  <2> QED
    BY <2>1, <2>5, <2>8, <2>9, <2>10, <2>11 DEF v, m, o
<1>18. LinesWritten(h, r)
  BY <1>17 DEF LinesWritten, n, FE
<1>19. \A k \in 0 .. n : h[FE(k) - 1] = CR /\ h[FE(k)] = LF
  <2>1. \A k \in 0 .. n : k = 0 \/ k \in 1 .. n
    BY <1>1
  <2> QED
    BY <1>15, <1>17, <2>1
<1>20. HeadWritten(h, r)
  <2>1. /\ h \in Seq(Nat) /\ Len(h) \in Nat /\ n \in Nat /\ s \in Seq(Nat) /\ Len(s) \in Nat
        /\ FE(0) = Len(s) + 2 /\ Len(h) = FE(n) + 2
    BY <1>1, <1>8, <1>10, <1>13
  <2> QED
    BY <1>12, <1>14, <1>16, <1>19, <2>1 DEF HeadWritten, n, FE, s
<1>21. \A i, j \in 0 .. n : i < j => FE(i) < FE(j)
  BY <1>4, <1>5, <1>10, <1>11
<1> QED
  BY <1>18, <1>20, <1>21 DEF h, n, FE

\* What ServerAssumption says of a head.
PlainHead(r) ==
  /\ \A j \in 1 .. Len(r.start) : r.start[j] # CR
  /\ \A k \in 1 .. Count(r) :
       NameOf(r, k) # CR /\ \A j \in 1 .. Len(ValueOf(r, k)) : ValueOf(r, k)[j] # CR

\* A carriage return in the head ends one of its lines.
LEMMA HeadBreaks ==
  ASSUME NEW r \in ServerResponse, PlainHead(r),
         NEW p \in 1 .. FieldEnd(r, Count(r)), HeadOf(r)[p] = CR
  PROVE  \E k \in 0 .. Count(r) : p = FieldEnd(r, k) - 1
<1> DEFINE h == HeadOf(r)
           n == Count(r)
           s == r.start
           FE(k) == FieldEnd(r, k)
           Breaks(m) == \A x \in 1 .. FE(m) : h[x] = CR => \E k \in 0 .. m : x = FE(k) - 1
           S == {m \in Nat : m <= n => Breaks(m)}
<1>1. /\ n \in Nat /\ Len(s) \in Nat /\ FE(0) = Len(s) + 2
      /\ \A j \in 1 .. Len(s) : h[j] = s[j]
      /\ \A k \in 0 .. n : FE(k) \in Nat /\ h[FE(k)] = LF
  BY HeadLayout DEF HeadWritten
<1>2. ASSUME NEW k \in 1 .. n
      PROVE  /\ Len(ValueOf(r, k)) \in Nat
             /\ FE(k) = FE(k - 1) + Len(ValueOf(r, k)) + 4
             /\ h[FE(k - 1) + 1] = NameOf(r, k) /\ h[FE(k - 1) + 2] = Colon
             /\ \A j \in 1 .. Len(ValueOf(r, k)) : h[FE(k - 1) + 2 + j] = ValueOf(r, k)[j]
  BY HeadLayout DEF LinesWritten
<1>3. CR # LF /\ CR # Colon
  BY DEF CR, LF, Colon
<1>4. \A j \in 1 .. Len(s) : s[j] # CR
  BY DEF PlainHead
<1>5. ASSUME NEW k \in 1 .. n
      PROVE  NameOf(r, k) # CR /\ \A j \in 1 .. Len(ValueOf(r, k)) : ValueOf(r, k)[j] # CR
  BY DEF PlainHead
<1> HIDE DEF h, n, s, FE
<1>6. 0 \in S
  <2>1. ASSUME NEW x \in 1 .. FE(0), h[x] = CR PROVE x = FE(0) - 1
    <3>1. x \notin 1 .. Len(s)
      BY <1>1, <1>4, <2>1
    <3>2. x # Len(s) + 2
      <4>1. 0 \in 0 .. n
        BY <1>1
      <4> QED
        BY <1>1, <1>3, <2>1, <4>1
    <3> QED
      BY <1>1, <3>1, <3>2
  <2>2. 0 \in 0 .. 0
    OBVIOUS
  <2> QED
    BY <2>1, <2>2
<1>7. ASSUME NEW m \in Nat, m \in S PROVE m + 1 \in S
  <2> SUFFICES ASSUME m + 1 <= n, NEW x \in 1 .. FE(m + 1), h[x] = CR
               PROVE  \E k \in 0 .. (m + 1) : x = FE(k) - 1
    OBVIOUS
  <2>1. m <= n /\ m \in 0 .. n /\ m + 1 \in 0 .. n /\ m + 1 \in 1 .. n /\ (m + 1) - 1 = m
    BY <1>1
  <2>2. Breaks(m)
    BY <1>7, <2>1
  <2> DEFINE o == FE(m)
             v == ValueOf(r, m + 1)
  <2>3. /\ Len(v) \in Nat /\ FE(m + 1) = o + Len(v) + 4
        /\ h[o + 1] = NameOf(r, m + 1) /\ h[o + 2] = Colon
        /\ \A j \in 1 .. Len(v) : h[o + 2 + j] = v[j]
    BY <1>2, <2>1
  <2>4. NameOf(r, m + 1) # CR /\ \A j \in 1 .. Len(v) : v[j] # CR
    BY <1>5, <2>1
  <2>5. o \in Nat /\ h[FE(m + 1)] = LF
    BY <1>1, <2>1
  <2>6. CASE x <= o
    <3>1. x \in 1 .. o
      BY <2>5, <2>6
    <3>2. PICK k \in 0 .. m : x = FE(k) - 1
      BY <2>2, <3>1
    <3>3. k \in 0 .. (m + 1)
      OBVIOUS
    <3> QED
      BY <3>2, <3>3
  <2>7. CASE o < x
    <3> HIDE DEF o, v
    <3>1. x # o + 1 /\ x # o + 2 /\ x # o + Len(v) + 4
      BY <1>3, <2>3, <2>4, <2>5
    <3>2. \A j \in 1 .. Len(v) : x # o + 2 + j
      BY <2>3, <2>4
    <3>3. ~(o + 2 < x /\ x <= o + 2 + Len(v))
      <4> SUFFICES ASSUME o + 2 < x, x <= o + 2 + Len(v) PROVE FALSE
        OBVIOUS
      <4>1. x - (o + 2) \in 1 .. Len(v) /\ x = o + 2 + (x - (o + 2))
        BY <2>3, <2>5
      <4> QED
        BY <3>2, <4>1
    <3>4. x = o + Len(v) + 3
      <4>1. x \in Nat /\ x <= o + Len(v) + 4
        BY <2>3, <2>5
      <4>2. o + 2 < x
        BY <2>5, <2>7, <3>1, <4>1
      <4>3. o + 2 + Len(v) < x
        BY <2>3, <2>5, <3>3, <4>1, <4>2
      <4>4. x # o + Len(v) + 4
        BY <3>1
      <4> HIDE DEF S, Breaks
      <4> QED
        <5>1. o \in Nat /\ Len(v) \in Nat
          BY <2>3, <2>5, Zenon
        <5> QED
          BY <4>1, <4>3, <4>4, <5>1
    <3>5. x = FE(m + 1) - 1
      BY <2>3, <2>5, <3>4
    <3>6. m + 1 \in 0 .. (m + 1)
      OBVIOUS
    <3> QED
      BY <3>5, <3>6
  <2> QED
    BY <2>5, <2>6, <2>7
<1>8. n \in S
  <2> HIDE DEF S
  <2> QED
    BY <1>1, <1>6, <1>7, SetInduction
<1>9. Breaks(n)
  BY <1>1, <1>8
<1> QED
  BY <1>9 DEF h, n, FE

\* As far as d goes it is like h.
BeginsLike(d, h) == \A j \in 1 .. Len(h) : j <= Len(d) => d[j] = h[j]

\* No line is empty before the head is at its end.
LEMMA NoEarlyEnd ==
  ASSUME NEW r \in ServerResponse, PlainHead(r), NEW d \in Seq(Nat), BeginsLike(d, HeadOf(r)),
         NEW p \in HeaderEnds(d)
  PROVE  p \in Nat /\ p + 4 <= Len(d) /\ p + 4 >= Len(HeadOf(r))
<1> DEFINE h == HeadOf(r)
           n == Count(r)
           FE(k) == FieldEnd(r, k)
<1>1. /\ Len(h) \in Nat /\ n \in Nat /\ Len(h) = FE(n) + 2 /\ \A k \in 0 .. n : FE(k) \in Nat
  BY HeadLayout DEF HeadWritten
<1>2. \A k \in 1 .. n : h[FE(k - 1) + 1] = NameOf(r, k)
  BY HeadLayout DEF LinesWritten
<1>3. \A k \in 1 .. n : NameOf(r, k) # CR
  BY DEF PlainHead
<1>4. Len(d) \in Nat /\ \A j \in 1 .. Len(h) : j <= Len(d) => d[j] = h[j]
  BY DEF BeginsLike
<1>5. /\ p \in 0 .. (Len(d) - 2) /\ d[p + 1] = CR
      /\ p + 2 \in p .. (Len(d) - 2) /\ d[(p + 2) + 1] = CR
  BY DEF HeaderEnds, LineEnds
<1>6. p \in Nat /\ p + 4 <= Len(d) /\ (p + 2) + 1 = p + 3
  BY <1>4, <1>5
<1>7. ASSUME p + 4 < Len(h) PROVE FALSE
  <2> HIDE DEF h, n, FE
  <2>1. n \in 0 .. n
    BY <1>1
  <2>2. p + 1 \in 1 .. Len(h) /\ p + 1 <= Len(d) /\ p + 3 \in 1 .. Len(h) /\ p + 3 <= Len(d)
        /\ p + 1 \in 1 .. FE(n)
    BY <1>1, <1>4, <1>6, <1>7, <2>1
  <2>3. h[p + 1] = CR /\ h[p + 3] = CR
    BY <1>4, <1>5, <1>6, <2>2
  <2>4. PICK k \in 0 .. n : p + 1 = FE(k) - 1
    BY <2>2, <2>3, HeadBreaks DEF h, n, FE
  <2>5. FE(k) + 1 = p + 3
    <3>1. FE(k) \in Nat
      BY <1>1
    <3> QED
      BY <1>6, <2>4, <3>1
  <2>6. k # n
    BY <1>1, <1>6, <1>7, <2>5, SMTT(30)
  <2>7. k + 1 \in 1 .. n /\ (k + 1) - 1 = k
    BY <1>1, <2>6
  <2>8. h[FE(k) + 1] # CR
    BY <1>2, <1>3, <2>7
  <2> QED
    BY <2>3, <2>5, <2>8
<1> QED
  BY <1>1, <1>6, <1>7

\* A head that was cut has no end.
LEMMA CutHeadLen ==
  ASSUME NEW r \in ServerResponse, PlainHead(r), NEW d \in Seq(Nat), BeginsLike(d, HeadOf(r)),
         Len(d) < Len(HeadOf(r))
  PROVE  HeaderLen(d) = 0
<1>1. Len(HeadOf(r)) \in Nat /\ Len(d) \in Nat
  BY HeadLayout DEF HeadWritten
<1>2. HeaderEnds(d) = {}
  <2> SUFFICES ASSUME NEW p \in HeaderEnds(d) PROVE FALSE
    OBVIOUS
  <2>1. p \in Nat /\ p + 4 <= Len(d) /\ p + 4 >= Len(HeadOf(r))
    BY NoEarlyEnd
  <2> QED
    BY <1>1, <2>1
<1> QED
  BY <1>2 DEF HeaderLen

\* A head that arrived ends where the server ended it, whatever follows.
LEMMA WholeHeadLen ==
  ASSUME NEW r \in ServerResponse, PlainHead(r), NEW d \in Seq(Nat), BeginsLike(d, HeadOf(r)),
         Len(d) >= Len(HeadOf(r))
  PROVE  HeaderLen(d) = Len(HeadOf(r)) /\ Len(HeadOf(r)) >= 4
<1> DEFINE h == HeadOf(r)
           n == Count(r)
           FE(k) == FieldEnd(r, k)
           e == FE(n) - 2
<1>1. /\ Len(h) \in Nat /\ n \in Nat /\ Len(h) = FE(n) + 2
      /\ \A k \in 0 .. n : FE(k) \in Nat /\ FE(k) >= 2 /\ h[FE(k) - 1] = CR /\ h[FE(k)] = LF
      /\ h[FE(n) + 1] = CR /\ h[FE(n) + 2] = LF
  BY HeadLayout DEF HeadWritten
<1>2. Len(d) \in Nat /\ \A j \in 1 .. Len(h) : j <= Len(d) => d[j] = h[j]
  BY DEF BeginsLike
<1>3. Len(d) >= Len(h)
  OBVIOUS
<1> HIDE DEF h, n, FE
<1>4. n \in 0 .. n
  BY <1>1
<1>5. e \in Nat /\ Len(h) = e + 4 /\ FE(n) = e + 2 /\ FE(n) - 1 = e + 1
  BY <1>1, <1>4
<1>6. h[e + 1] = CR /\ h[e + 2] = LF /\ h[e + 3] = CR /\ h[e + 4] = LF
  <2>1. FE(n) + 1 = e + 3 /\ FE(n) + 2 = e + 4
    BY <1>5
  <2>2. /\ h[FE(n) - 1] = CR /\ h[FE(n)] = LF
        /\ h[FE(n) + 1] = CR /\ h[FE(n) + 2] = LF
    BY <1>1, <1>4, Zenon
  <2> QED
    BY <1>5, <2>1, <2>2, Zenon
<1> HIDE DEF e
<1>7. d[e + 1] = CR /\ d[e + 2] = LF /\ d[e + 3] = CR /\ d[e + 4] = LF
  <2>1. \A j \in 1 .. Len(h) : d[j] = h[j]
    BY <1>1, <1>2, <1>3
  <2>2. e + 1 \in 1 .. Len(h) /\ e + 2 \in 1 .. Len(h) /\ e + 3 \in 1 .. Len(h) /\ e + 4 \in 1 .. Len(h)
    BY <1>5
  <2> QED
    BY <1>6, <2>1, <2>2
<1>8. e \in HeaderEnds(d)
  <2>1. e \in 0 .. (Len(d) - 2) /\ e + 2 \in e .. (Len(d) - 2) /\ (e + 2) + 1 = e + 3 /\ (e + 2) + 2 = e + 4
    BY <1>1, <1>2, <1>3, <1>5
  <2> QED
    BY <1>7, <2>1 DEF HeaderEnds, LineEnds
<1>9. \A p \in HeaderEnds(d) : p \in Nat /\ p >= e
  <2>1. \A p \in HeaderEnds(d) : p \in Nat /\ p + 4 >= Len(h)
    BY NoEarlyEnd DEF h
  <2> QED
    BY <1>5, <2>1
<1>10. Smallest(HeaderEnds(d)) = e
  <2>1. Smallest(HeaderEnds(d)) \in HeaderEnds(d) /\ \A p \in HeaderEnds(d) : Smallest(HeaderEnds(d)) <= p
    BY <1>8, <1>9, SmallestType
  <2>2. PICK x : x = Smallest(HeaderEnds(d))
    OBVIOUS
  <2>3. x \in Nat /\ x >= e /\ x <= e
    BY <1>8, <1>9, <2>1, <2>2
  <2> QED
    BY <1>5, <2>2, <2>3
<1> QED
  BY <1>5, <1>8, <1>10 DEF HeaderLen, h

(***************************************************************************)
(* The status line.                                                        *)
(***************************************************************************)
\* A token has a width.
LEMMA WidthType ==
  ASSUME NEW t
  PROVE  /\ Width(t) \in Nat /\ Width(Http) = 5 /\ Width(Version) = 3 /\ Width(Space) = 1
         /\ IsDigit(t) => Width(t) = 1
BY DEF Width, Http, Version, Text, Space, IsDigit

\* A line that starts with a version, a blank and three digits.
CodeGiven(l) ==
  /\ Len(l) >= 6 /\ l[1] = Http /\ l[2] = Version /\ l[3] = Space
  /\ l[4] \in 49 .. 57 /\ IsDigit(l[5]) /\ IsDigit(l[6])

\* Such a line is not too short.
LEMMA WideEnough ==
  ASSUME NEW l \in Seq(Nat), CodeGiven(l)
  PROVE  WidthOf(l) \in Nat /\ WidthOf(l) >= 12
<1> DEFINE n == Len(l)
           Adds(u) == u = [k \in 0 .. n |-> IF k = 0 THEN 0 ELSE u[k - 1] + Width(l[k])]
           f == CHOOSE u : Adds(u)
           step == [k \in Nat |-> [v \in Nat |-> v + Width(l[k])]]
<1>1. n \in Nat /\ n >= 6
  BY DEF CodeGiven
<1>2. WidthOf(l) = f[n]
  BY DEF WidthOf
<1> HIDE DEF n
<1>3. step \in [Nat -> [Nat -> Nat]]
  <2>1. \A k \in Nat, v \in Nat : v + Width(l[k]) \in Nat
    BY WidthType
  <2> QED
    BY <2>1
<1>4. PICK g \in [0 .. n -> Nat] : Computes(g, n, 0, step)
  <2> HIDE DEF step
  <2>1. 0 \in Nat
    OBVIOUS
  <2> QED
    BY <1>1, <1>3, <2>1, RecursionExists
<1>5. Adds(g)
  <2>1. \A k \in 0 .. n : g[k] = IF k = 0 THEN 0 ELSE step[k][g[k - 1]]
    BY <1>4 DEF Computes
  <2>2. ASSUME NEW k \in 0 .. n PROVE g[k] = IF k = 0 THEN 0 ELSE g[k - 1] + Width(l[k])
    <3>1. CASE k = 0
      BY <2>1, <3>1
    <3>2. CASE k # 0
      <4>1. k \in Nat /\ k - 1 \in 0 .. n
        BY <1>1, <3>2
      <4>2. g[k - 1] \in Nat
        BY <4>1
      <4> QED
        BY <2>1, <3>2, <4>1, <4>2
    <3> QED
      BY <3>1, <3>2
  <2> QED
    BY <2>2
<1>6. Adds(f)
  <2> HIDE DEF Adds
  <2> QED
    BY <1>5
<1> HIDE DEF f, step
<1>7. \A k \in 0 .. n : f[k] = IF k = 0 THEN 0 ELSE f[k - 1] + Width(l[k])
  BY <1>6
<1> HIDE DEF Adds
<1>8. ASSUME NEW k \in Nat, k < n PROVE f[k + 1] = f[k] + Width(l[k + 1])
  <2>1. k + 1 \in 0 .. n /\ k + 1 # 0 /\ (k + 1) - 1 = k
    BY <1>1, <1>8
  <2> QED
    BY <1>7, <2>1
<1>9. f[6] = 12
  <2>1. ASSUME NEW i \in 0 .. 5, NEW j, j = i + 1 PROVE f[j] = f[i] + Width(l[j])
    <3>1. i \in Nat /\ i < n
      BY <1>1
    <3> QED
      BY <1>8, <2>1, <3>1
  <2>2. f[0] = 0
    BY <1>1, <1>7, SMTT(30)
  <2>3. IsDigit(l[4]) /\ IsDigit(l[5]) /\ IsDigit(l[6])
    BY SMTT(30) DEF CodeGiven, IsDigit
  <2>4. Width(l[1]) = 5 /\ Width(l[2]) = 3 /\ Width(l[3]) = 1
    BY WidthType DEF CodeGiven
  <2>5. Width(l[4]) = 1 /\ Width(l[5]) = 1 /\ Width(l[6]) = 1
    BY <2>3, WidthType
  <2>6. f[1] = 5
    <3>1. f[1] = f[0] + Width(l[1])
      BY <2>1
    <3> QED
      BY <2>2, <2>4, <3>1
  <2>7. f[2] = 8
    <3>1. f[2] = f[1] + Width(l[2])
      BY <2>1
    <3> QED
      BY <2>4, <2>6, <3>1
  <2>8. f[3] = 9
    <3>1. f[3] = f[2] + Width(l[3])
      BY <2>1
    <3> QED
      BY <2>4, <2>7, <3>1
  <2>9. f[4] = 10
    <3>1. f[4] = f[3] + Width(l[4])
      BY <2>1
    <3> QED
      BY <2>5, <2>8, <3>1
  <2>10. f[5] = 11
    <3>1. f[5] = f[4] + Width(l[5])
      BY <2>1
    <3> QED
      BY <2>5, <2>9, <3>1
  <2>11. f[6] = f[5] + Width(l[6])
    BY <2>1
  <2> QED
    BY <2>5, <2>10, <2>11
<1> DEFINE S == {k \in Nat : 6 + k <= n => f[6 + k] \in Nat /\ f[6 + k] >= 12}
<1>10. 0 \in S
  BY <1>9
<1>11. ASSUME NEW k \in Nat, k \in S PROVE k + 1 \in S
  <2> SUFFICES ASSUME 6 + (k + 1) <= n PROVE f[6 + (k + 1)] \in Nat /\ f[6 + (k + 1)] >= 12
    OBVIOUS
  <2>1. 6 + k < n /\ 6 + k \in Nat /\ (6 + k) + 1 = 6 + (k + 1) /\ 6 + k <= n
    BY <1>1
  <2>2. f[(6 + k) + 1] = f[6 + k] + Width(l[(6 + k) + 1])
    BY <1>8, <2>1
  <2>3. f[6 + k] \in Nat /\ f[6 + k] >= 12
    BY <1>11, <2>1
  <2>4. Width(l[(6 + k) + 1]) \in Nat
    BY WidthType
  <2> HIDE DEF S
  <2> QED
    BY <2>1, <2>2, <2>3, <2>4
<1>12. n - 6 \in S
  <2>1. n - 6 \in Nat
    BY <1>1
  <2> HIDE DEF S
  <2> QED
    BY <1>10, <1>11, <2>1, SetInduction
<1>13. 6 + (n - 6) = n
  BY <1>1
<1> QED
  BY <1>1, <1>2, <1>12, <1>13

\* The code is not longer.
CodeEnds(d) == Len(d) >= 7 /\ ~IsDigit(d[7])

\* strtol reads a number of three digits.
LEMMA ThreeDigits ==
  ASSUME NEW d \in Seq(Nat), CodeGiven(d), CodeEnds(d)
  PROVE  strtol(d, 3) = 100 * (d[4] - 48) + 10 * (d[5] - 48) + (d[6] - 48)
<1> DEFINE N == Len(d)
           blanks == {p \in 3 .. N : p = N \/ d[p + 1] \notin {Space, Tab, CR, LF}}
           n == Smallest(blanks)
           Reads(u, m) == u = [p \in m .. N |-> IF p > m /\ IsDigit(d[p])
                                                THEN u[p - 1] * 10 + d[p] - 48 ELSE 0]
           Ends(m) == {p \in m .. N : p = N \/ ~IsDigit(d[p + 1])}
<1>1. N \in Nat /\ N >= 7 /\ (\A k \in 1 .. N : d[k] \in Nat) /\ ~IsDigit(d[7])
  BY DEF CodeEnds
<1>2. PICK x \in 49 .. 57, y \in 48 .. 57, z \in 48 .. 57 : x = d[4] /\ y = d[5] /\ z = d[6]
  BY DEF CodeGiven, IsDigit
<1>3. IsDigit(d[4]) /\ IsDigit(d[5]) /\ IsDigit(d[6])
  BY <1>2 DEF IsDigit
<1>4. strtol(d, 3) = (CHOOSE u : Reads(u, n))[Smallest(Ends(n))]
  BY DEF strtol
<1> HIDE DEF N
<1>5. n = 3
  <2>1. d[3 + 1] \notin {Space, Tab, CR, LF}
    <3>1. x \notin {Space, Tab, CR, LF}
      BY DEF Space, Tab, CR, LF
    <3>2. 3 + 1 = 4
      OBVIOUS
    <3> QED
      BY <1>2, <3>1, <3>2, Zenon
  <2>2. 3 \in blanks /\ blanks \subseteq Nat /\ \A p \in blanks : 3 <= p
    BY <1>1, <2>1
  <2> HIDE DEF blanks
  <2> QED
    BY <2>2, SmallestIs
<1> HIDE DEF n
<1>6. Smallest(Ends(3)) = 6
  <2>1. ASSUME NEW p \in Ends(3) PROVE p \in Nat /\ 6 <= p
    <3>1. p \in 3 .. N /\ (p = N \/ ~IsDigit(d[p + 1]))
      OBVIOUS
    <3>2. IsDigit(d[3 + 1]) /\ IsDigit(d[4 + 1]) /\ IsDigit(d[5 + 1])
      BY <1>3
    <3>3. p # 3 /\ p # 4 /\ p # 5
      BY <1>1, <3>1, <3>2, SMTT(30)
    <3> QED
      BY <1>1, <3>1, <3>3
  <2>2. 6 \in Ends(3)
    <3>1. ~IsDigit(d[6 + 1])
      BY <1>1
    <3> QED
      BY <1>1, <3>1
  <2> HIDE DEF Ends
  <2> QED
    BY <2>1, <2>2, SmallestIs
<1> DEFINE step == [k \in Nat |-> [v \in Int |-> IF k + 3 <= N /\ IsDigit(d[k + 3])
                                                 THEN v * 10 + d[k + 3] - 48 ELSE 0]]
<1>7. step \in [Nat -> [Int -> Int]]
  <2>1. ASSUME NEW k \in Nat, NEW v \in Int, k + 3 <= N, IsDigit(d[k + 3])
        PROVE  v * 10 + d[k + 3] - 48 \in Int
    <3>1. PICK e \in Nat : e = d[k + 3]
      BY <1>1, <2>1
    <3> QED
      BY <3>1
  <2> QED
    BY <2>1
<1>8. PICK g \in [0 .. (N - 3) -> Int] : Computes(g, N - 3, 0, step)
  <2> DEFINE m == N - 3
  <2>1. m \in Nat /\ 0 \in Int
    BY <1>1
  <2> HIDE DEF m, step
  <2>2. \E g \in [0 .. m -> Int] : Computes(g, m, 0, step)
    BY <1>7, <2>1, RecursionExists
  <2> QED
    BY <2>2 DEF m
<1>9. \A k \in 0 .. (N - 3) : g[k] = IF k = 0 THEN 0 ELSE step[k][g[k - 1]]
  BY <1>8 DEF Computes
<1> DEFINE w == [p \in 3 .. N |-> g[p - 3]]
<1>10. Reads(w, 3)
  <2>1. ASSUME NEW p \in 3 .. N
        PROVE  w[p] = IF p > 3 /\ IsDigit(d[p]) THEN w[p - 1] * 10 + d[p] - 48 ELSE 0
    <3>1. w[p] = g[p - 3] /\ p - 3 \in 0 .. (N - 3)
      BY <1>1
    <3>2. CASE p = 3
      <4>1. p - 3 = 0 /\ ~(p > 3)
        BY <3>2
      <4>2. g[0] = 0
        <5>1. 0 \in 0 .. (N - 3)
          BY <1>1
        <5> QED
          BY <1>9, <5>1
      <4> QED
        BY <3>1, <4>1, <4>2
    <3>3. CASE p > 3
      <4>1. p - 3 # 0 /\ p - 3 \in Nat /\ (p - 3) + 3 = p /\ p <= N /\ (p - 3) - 1 \in 0 .. (N - 3)
            /\ p - 1 \in 3 .. N /\ (p - 1) - 3 = (p - 3) - 1
        BY <1>1, <3>3
      <4>2. g[p - 3] = step[p - 3][g[(p - 3) - 1]] /\ g[(p - 3) - 1] \in Int
        BY <1>8, <1>9, <3>1, <4>1
      <4>3. step[p - 3][g[(p - 3) - 1]] = IF IsDigit(d[p]) THEN g[(p - 3) - 1] * 10 + d[p] - 48 ELSE 0
        BY <4>1, <4>2
      <4>4. w[p - 1] = g[(p - 3) - 1]
        BY <4>1
      <4> QED
        BY <3>1, <3>3, <4>2, <4>3, <4>4
    <3> QED
      BY <3>2, <3>3
  <2> HIDE DEF step
  <2> QED
    BY <2>1
<1> DEFINE f == CHOOSE u : Reads(u, 3)
<1>11. Reads(f, 3)
  <2> HIDE DEF Reads, w
  <2> QED
    BY <1>10
<1>12. strtol(d, 3) = f[6]
  BY <1>4, <1>5, <1>6
<1> HIDE DEF f, w, step
<1>13. \A p \in 3 .. N : f[p] = IF p > 3 /\ IsDigit(d[p]) THEN f[p - 1] * 10 + d[p] - 48 ELSE 0
  BY <1>11
<1> HIDE DEF Reads, Ends, blanks
<1>14. f[3] = 0
  <2>1. 3 \in 3 .. N /\ ~(3 > 3)
    BY <1>1
  <2> QED
    BY <1>13, <2>1
<1>15. ASSUME NEW p \in 4 .. 6 PROVE f[p] = f[p - 1] * 10 + d[p] - 48
  <2>1. p \in 3 .. N /\ p > 3
    BY <1>1
  <2>2. IsDigit(d[p])
    <3>1. p = 4 \/ p = 5 \/ p = 6
      OBVIOUS
    <3> QED
      BY <1>3, <3>1, Zenon
  <2> QED
    BY <1>13, <2>1, <2>2
<1>16. f[4] = x - 48
  <2>1. 4 \in 4 .. 6 /\ 4 - 1 = 3
    OBVIOUS
  <2>2. f[4] = f[3] * 10 + x - 48
    BY <1>2, <1>15, <2>1
  <2> QED
    BY <1>14, <2>2
<1>17. f[5] = (x - 48) * 10 + y - 48
  <2>1. 5 \in 4 .. 6 /\ 5 - 1 = 4
    OBVIOUS
  <2> QED
    BY <1>2, <1>15, <1>16, <2>1
<1>18. f[6] = ((x - 48) * 10 + y - 48) * 10 + z - 48
  <2>1. 6 \in 4 .. 6 /\ 6 - 1 = 5
    OBVIOUS
  <2> QED
    BY <1>2, <1>15, <1>17, <2>1
<1>19. ((x - 48) * 10 + y - 48) * 10 + z - 48 = 100 * (x - 48) + 10 * (y - 48) + (z - 48)
  OBVIOUS
<1> QED
  BY <1>2, <1>12, <1>18, <1>19

\* What a head that arrived says of d.
HeadArrived(d, r) == BeginsLike(d, HeadOf(r)) /\ Len(d) >= Len(HeadOf(r))

\* The status line of a head that arrived.
LEMMA StatusLine ==
  ASSUME NEW r \in ServerResponse, PlainHead(r), NEW d \in Seq(Nat), HeadArrived(d, r)
  PROVE  /\ Len(d) \in Nat /\ Len(r.start) \in Nat /\ Len(r.start) + 2 <= Len(d)
         /\ \A j \in 1 .. Len(r.start) : d[j] = r.start[j] /\ d[j] # CR
         /\ d[Len(r.start) + 1] = CR
         /\ LineEnds(d, 0) # {} /\ Smallest(LineEnds(d, 0)) = Len(r.start)
<1> DEFINE h == HeadOf(r)
           n == Count(r)
           s == r.start
           FE(k) == FieldEnd(r, k)
<1>1. /\ Len(h) \in Nat /\ n \in Nat /\ Len(h) = FE(n) + 2
      /\ s \in Seq(Nat) /\ Len(s) \in Nat /\ FE(0) = Len(s) + 2
      /\ \A j \in 1 .. Len(s) : h[j] = s[j]
      /\ \A k \in 0 .. n : FE(k) \in Nat /\ h[FE(k) - 1] = CR /\ h[FE(k)] = LF
  BY HeadLayout DEF HeadWritten
<1>2. \A i, j \in 0 .. n : i < j => FE(i) < FE(j)
  BY HeadLayout
<1>3. Len(d) \in Nat /\ Len(d) >= Len(h) /\ \A j \in 1 .. Len(h) : j <= Len(d) => d[j] = h[j]
  BY DEF HeadArrived, BeginsLike
<1>4. \A j \in 1 .. Len(s) : s[j] # CR
  BY DEF PlainHead
<1> HIDE DEF h, n, s, FE
<1>5. 0 \in 0 .. n /\ n \in 0 .. n
  BY <1>1
<1>6. FE(0) <= FE(n)
  <2>1. n = 0 \/ 0 < n
    BY <1>1
  <2> QED
    BY <1>1, <1>2, <1>5, <2>1
<1>7. Len(s) + 2 <= Len(h) /\ Len(s) + 2 <= Len(d)
  BY <1>1, <1>3, <1>5, <1>6
<1>8. ASSUME NEW j \in 1 .. (Len(s) + 2) PROVE d[j] = h[j]
  <2>1. j \in 1 .. Len(h) /\ j <= Len(d)
    BY <1>1, <1>3, <1>7, SMTT(30)
  <2> QED
    BY <1>3, <2>1
<1>9. d[Len(s) + 1] = CR /\ d[Len(s) + 2] = LF
  <2>1. FE(0) - 1 = Len(s) + 1
    BY <1>1
  <2>2. h[Len(s) + 1] = CR /\ h[Len(s) + 2] = LF
    BY <1>1, <1>5, <2>1
  <2>3. Len(s) + 1 \in 1 .. (Len(s) + 2) /\ Len(s) + 2 \in 1 .. (Len(s) + 2)
    BY <1>1
  <2> QED
    BY <1>8, <2>2, <2>3, Zenon
<1>10. \A j \in 1 .. Len(s) : d[j] = s[j] /\ d[j] # CR
  <2>1. \A j \in 1 .. Len(s) : j \in 1 .. (Len(s) + 2)
    BY <1>1
  <2> QED
    BY <1>1, <1>4, <1>8, <2>1, Zenon
<1>11. Len(s) \in LineEnds(d, 0)
  BY <1>1, <1>3, <1>7, <1>9 DEF LineEnds
<1>12. ASSUME NEW p \in LineEnds(d, 0) PROVE p \in Nat /\ Len(s) <= p
  <2>1. p \in 0 .. (Len(d) - 2) /\ d[p + 1] = CR
    BY DEF LineEnds
  <2>2. p \in Nat
    BY <1>3, <2>1
  <2>3. p + 1 \notin 1 .. Len(s)
    BY <1>10, <2>1
  <2> QED
    BY <1>1, <2>2, <2>3
<1>13. Smallest(LineEnds(d, 0)) = Len(s)
  BY <1>11, <1>12, SmallestIs
<1> QED
  BY <1>1, <1>3, <1>7, <1>9, <1>10, <1>11, <1>13 DEF s

\* A well-formed one has a code.
LEMMA CodeRead ==
  ASSUME NEW r \in ServerResponse, PlainHead(r), NEW d \in Seq(Nat), HeadArrived(d, r), WellFormed(r)
  PROVE  /\ CodeGiven(d) /\ CodeEnds(d) /\ Len(r.start) >= 6
         /\ 100 * (d[4] - 48) + 10 * (d[5] - 48) + (d[6] - 48) = StatusOf(r)
         /\ StatusOf(r) \in 100 .. 999
<1> DEFINE s == r.start
<1>1. /\ Len(d) \in Nat /\ Len(s) \in Nat /\ Len(s) + 2 <= Len(d)
      /\ \A j \in 1 .. Len(s) : d[j] = s[j] /\ d[Len(s) + 1] = CR
  BY StatusLine
<1>2. /\ Len(s) >= 6 /\ SubSeq(s, 1, 3) = <<Http, Version, Space>>
      /\ s[4] \in 49 .. 57 /\ IsDigit(s[5]) /\ IsDigit(s[6])
      /\ Len(s) > 6 => s[7] = Space
  BY DEF WellFormed
<1>3. StatusOf(r) = 100 * (s[4] - 48) + 10 * (s[5] - 48) + (s[6] - 48)
  BY DEF StatusOf
<1>4. s \in Seq(Nat)
  BY DEF ServerResponse
<1> HIDE DEF s
<1>5. s[1] = Http /\ s[2] = Version /\ s[3] = Space
  <2>1. \A k \in 1 .. 3 : SubSeq(s, 1, 3)[k] = s[k]
    <3>1. 3 \in 0 .. Len(s)
      BY <1>1, <1>2
    <3>2. Occurs(s, 0, SubSeq(s, 1, 3)) /\ Len(SubSeq(s, 1, 3)) = 3
      BY <1>4, <3>1, OccursPrefix
    <3>3. \A k \in 1 .. 3 : s[0 + k] = SubSeq(s, 1, 3)[k]
      BY <3>2 DEF Occurs
    <3> QED
      BY <3>3
  <2>2. /\ <<Http, Version, Space>>[1] = Http /\ <<Http, Version, Space>>[2] = Version
        /\ <<Http, Version, Space>>[3] = Space
    OBVIOUS
  <2>3. 1 \in 1 .. 3 /\ 2 \in 1 .. 3 /\ 3 \in 1 .. 3
    OBVIOUS
  <2> QED
    BY <1>2, <2>1, <2>2, <2>3, Zenon
<1>6. \A j \in 1 .. 6 : d[j] = s[j]
  BY <1>1, <1>2, SMTT(30)
<1>7. d[1] = s[1] /\ d[2] = s[2] /\ d[3] = s[3] /\ d[4] = s[4] /\ d[5] = s[5] /\ d[6] = s[6]
  <2>1. 1 \in 1 .. 6 /\ 2 \in 1 .. 6 /\ 3 \in 1 .. 6 /\ 4 \in 1 .. 6 /\ 5 \in 1 .. 6 /\ 6 \in 1 .. 6
    OBVIOUS
  <2> QED
    BY <1>6, <2>1, Zenon
<1>8. CodeGiven(d)
  <2>1. Len(d) >= 6
    BY <1>1, <1>2
  <2> QED
    BY <1>2, <1>5, <1>7, <2>1, Zenon DEF CodeGiven
<1>9. CodeEnds(d)
  <2>1. Len(d) >= 7
    BY <1>1, <1>2
  <2>2. CASE Len(s) > 6
    <3>1. 7 \in 1 .. Len(s)
      BY <1>1, <2>2
    <3>2. d[7] = Space
      BY <1>1, <1>2, <2>2, <3>1, Zenon
    <3>3. ~IsDigit(Space)
      BY DEF IsDigit, Space
    <3> QED
      BY <2>1, <3>2, <3>3, Zenon DEF CodeEnds
  <2>3. CASE ~(Len(s) > 6)
    <3>1. Len(s) + 1 = 7 /\ 1 \in 1 .. Len(s)
      BY <1>1, <1>2, <2>3
    <3>2. d[7] = CR
      BY <1>1, <3>1, Zenon
    <3>3. ~IsDigit(CR)
      BY DEF IsDigit, CR
    <3> QED
      BY <2>1, <3>2, <3>3, Zenon DEF CodeEnds
  <2> QED
    BY <2>2, <2>3
<1>10. StatusOf(r) = 100 * (d[4] - 48) + 10 * (d[5] - 48) + (d[6] - 48)
  BY <1>3, <1>7, Zenon
<1>11. PICK x \in 49 .. 57, y \in 48 .. 57, z \in 48 .. 57 : x = d[4] /\ y = d[5] /\ z = d[6]
  <2>1. d[4] \in 49 .. 57 /\ d[5] \in 48 .. 57 /\ d[6] \in 48 .. 57
    BY <1>8, Zenon DEF CodeGiven, IsDigit
  <2> QED
    BY <2>1, Zenon
<1>12. 100 * (x - 48) + 10 * (y - 48) + (z - 48) \in 100 .. 999
  OBVIOUS
<1>13. StatusOf(r) \in 100 .. 999
  <2>1. StatusOf(r) = 100 * (x - 48) + 10 * (y - 48) + (z - 48)
    BY <1>10, <1>11, SMT
  <2> QED
    BY <1>12, <2>1, SMT
<1> QED
  BY <1>2, <1>8, <1>9, <1>10, <1>13, Zenon DEF s

\* A status of three digits is taken.
LEMMA StatusWithin ==
  ASSUME NEW x, x \in 100 .. 999
  PROVE  ~(x < 100 \/ x > 999)
OBVIOUS

\* http_parse_response takes a well-formed head for what it is.
LEMMA HeadRead ==
  ASSUME NEW r \in ServerResponse, PlainHead(r), NEW d \in Seq(Nat), HeadArrived(d, r), WellFormed(r)
  PROVE  http_parse_response(d) =
           [rc |-> 0, status_code |-> StatusOf(r), header_len |-> Len(HeadOf(r)),
            body |-> SubSeq(d, Len(HeadOf(r)) + 1, Len(d))]
<1> DEFINE s == r.start
           l == SubSeq(d, 1, Len(s))
           e == Smallest(LineEnds(d, 0))
           b == Smallest(Spaces(d))
<1>1. /\ Len(d) \in Nat /\ Len(s) \in Nat /\ Len(s) + 2 <= Len(d)
      /\ LineEnds(d, 0) # {} /\ e = Len(s)
  BY StatusLine
<1>2. /\ CodeGiven(d) /\ CodeEnds(d) /\ Len(s) >= 6 /\ StatusOf(r) \in 100 .. 999
      /\ 100 * (d[4] - 48) + 10 * (d[5] - 48) + (d[6] - 48) = StatusOf(r)
  BY CodeRead
<1>3. strtol(d, 3) = StatusOf(r)
  BY <1>2, ThreeDigits
<1>4. HeaderLen(d) = Len(HeadOf(r)) /\ Len(HeadOf(r)) >= 4 /\ Len(HeadOf(r)) \in Nat
  BY WholeHeadLen, HeadLayout DEF HeadArrived, HeadWritten
<1> HIDE DEF s, e
<1>5. WidthOf(l) >= 12 /\ WidthOf(l) \in Nat
  <2>1. Len(s) \in 0 .. Len(d)
    BY <1>1
  <2>2. l \in Seq(Nat) /\ Len(l) = Len(s) /\ Occurs(d, 0, l)
    BY <2>1, OccursPrefix
  <2> HIDE DEF l
  <2>3. \A j \in 1 .. 6 : l[j] = d[j]
    <3>1. \A j \in 1 .. Len(l) : d[0 + j] = l[j]
      BY <2>2 DEF Occurs
    <3>2. \A j \in 1 .. 6 : j \in 1 .. Len(l) /\ 0 + j = j
      BY <1>1, <1>2, <2>2, SMTT(30)
    <3> QED
      BY <3>1, <3>2, Zenon
  <2>4. l[1] = d[1] /\ l[2] = d[2] /\ l[3] = d[3] /\ l[4] = d[4] /\ l[5] = d[5] /\ l[6] = d[6]
    <3>1. 1 \in 1 .. 6 /\ 2 \in 1 .. 6 /\ 3 \in 1 .. 6 /\ 4 \in 1 .. 6 /\ 5 \in 1 .. 6 /\ 6 \in 1 .. 6
      OBVIOUS
    <3> QED
      BY <2>3, <3>1, Zenon
  <2>5. CodeGiven(l)
    BY <1>2, <2>2, <2>4, Zenon DEF CodeGiven
  <2> QED
    BY <2>2, <2>5, WideEnough
<1>6. d[1] = Http /\ d[2] = Version /\ d[3] = Space
  BY <1>2, Zenon DEF CodeGiven
<1>7. Spaces(d) # {} /\ b = 2
  <2>1. 2 \in Spaces(d)
    <3>1. 2 + 1 = 3 /\ 2 \in 0 .. (Len(d) - 1)
      BY <1>1, <1>2
    <3>2. d[2 + 1] = Space
      BY <1>6, <3>1, Zenon
    <3> QED
      BY <3>1, <3>2 DEF Spaces
  <2>2. ASSUME NEW p \in Spaces(d) PROVE p \in Nat /\ 2 <= p
    <3>1. p \in 0 .. (Len(d) - 1) /\ d[p + 1] = Space
      BY DEF Spaces
    <3>2. p # 0
      <4>1. 0 + 1 = 1 /\ Http # Space
        BY DEF Http, Space
      <4> QED
        BY <1>6, <3>1, <4>1, Zenon
    <3>3. p # 1
      <4>1. 1 + 1 = 2 /\ Version # Space
        BY DEF Version, Space
      <4> QED
        BY <1>6, <3>1, <4>1, Zenon
    <3>4. p \in Nat
      BY <1>1, <3>1
    <3> QED
      BY <3>2, <3>3, <3>4
  <2> HIDE DEF b
  <2>3. Spaces(d) \subseteq Nat /\ \A p \in Spaces(d) : 2 <= p
    BY <2>2
  <2> QED
    BY <2>1, <2>3, SmallestIs DEF b
<1>8. d # <<>>
  <2>1. Len(d) # 0
    BY <1>1
  <2> QED
    BY <2>1
<1>9. ~(\/ WidthOf(SubSeq(d, 1, e)) < 12 \/ d[1] # Http \/ Spaces(d) = {} \/ b >= e)
  <2>1. ~(WidthOf(l) < 12)
    BY <1>5
  <2>2. ~(2 >= Len(s))
    BY <1>1, <1>2
  <2> QED
    BY <1>1, <1>6, <1>7, <2>1, <2>2, Zenon
<1>10. strtol(d, b + 1) = StatusOf(r)
  <2>1. 2 + 1 = 3
    OBVIOUS
  <2> QED
    BY <1>3, <1>7, <2>1, Zenon
<1>11. ~(StatusOf(r) < 100 \/ StatusOf(r) > 999) /\ HeaderLen(d) # 0
  <2>1. ~(StatusOf(r) < 100 \/ StatusOf(r) > 999)
    <3>1. StatusOf(r) \in 100 .. 999
      BY <1>2, SMTT(30)
    <3> HIDE DEF l, b
    <3> QED
      BY <3>1, StatusWithin
  <2>2. HeaderLen(d) # 0
    <3>1. \A x \in Nat : x >= 4 => x # 0
      OBVIOUS
    <3> QED
      BY <1>4, <3>1, Zenon
  <2> QED
    BY <2>1, <2>2
<1> DEFINE short  == WidthOf(SubSeq(d, 1, e)) < 12 \/ d[1] # Http \/ Spaces(d) = {} \/ b >= e
           status == strtol(d, b + 1)
           wrong  == status < 100 \/ status > 999
           parsed == [rc |-> 0, status_code |-> status, header_len |-> HeaderLen(d),
                      body |-> SubSeq(d, HeaderLen(d) + 1, Len(d))]
<1>12. http_parse_response(d) =
         IF d = <<>> THEN Refused(-1)
         ELSE IF LineEnds(d, 0) = {} THEN Refused(-2)
         ELSE IF short THEN Refused(-2)
         ELSE IF wrong THEN Refused(-2)
         ELSE IF HeaderLen(d) = 0 THEN Refused(-3)
         ELSE parsed
  BY DEF http_parse_response, e
<1>13. ~short
  BY <1>9, Zenon
<1>14. ~wrong
  BY <1>10, <1>11, ZenonT(40)
<1>15. parsed = [rc |-> 0, status_code |-> StatusOf(r), header_len |-> Len(HeadOf(r)),
                 body |-> SubSeq(d, Len(HeadOf(r)) + 1, Len(d))]
  BY <1>4, <1>10, Zenon
<1> HIDE DEF b, short, wrong, parsed
<1> QED
  BY <1>1, <1>8, <1>11, <1>12, <1>13, <1>14, <1>15, Zenon

(***************************************************************************)
(* The header lines.                                                       *)
(***************************************************************************)
\* The line that starts at o.
LineAt(d, o) == SubSeq(d, o + 1, Smallest(LineEnds(d, o)))

\* The k-th header line of a head that arrived.
LEMMA HeaderLine ==
  ASSUME NEW r \in ServerResponse, PlainHead(r), NEW d \in Seq(Nat), HeadArrived(d, r),
         NEW k \in 1 .. Count(r)
  PROVE  LET l == LineAt(d, FieldEnd(r, k - 1))
             v == ValueOf(r, k)
         IN  /\ l \in Seq(Nat) /\ v \in Seq(Nat) /\ Len(v) \in Nat /\ Len(l) = Len(v) + 2
             /\ l[1] = NameOf(r, k) /\ l[2] = Colon
             /\ \A j \in 1 .. Len(v) : l[2 + j] = v[j]
<1> DEFINE h == HeadOf(r)
           n == Count(r)
           v == ValueOf(r, k)
           m == NameOf(r, k)
           o == FieldEnd(r, k - 1)
           e == FieldEnd(r, k)
           w == Len(v)
           l == LineAt(d, o)
<1>1. k - 1 \in 0 .. n /\ k \in 0 .. n /\ n \in Nat
  BY HeadLayout DEF HeadWritten
<1>2. /\ Len(h) \in Nat /\ o \in Nat /\ e \in Nat /\ h[e - 1] = CR /\ h[e] = LF
      /\ Len(h) = FieldEnd(r, n) + 2
  BY <1>1, HeadLayout DEF HeadWritten
<1>3. /\ v \in Seq(Nat) /\ w \in Nat /\ e = o + w + 4 /\ h[o + 1] = m /\ h[o + 2] = Colon
      /\ \A j \in 1 .. w : h[o + 2 + j] = v[j]
  BY HeadLayout DEF LinesWritten
<1>4. e <= FieldEnd(r, n) /\ FieldEnd(r, n) \in Nat
  <2>1. k = n \/ k < n
    BY <1>1
  <2>2. n \in 0 .. n
    BY <1>1
  <2>3. FieldEnd(r, n) \in Nat
    BY <2>2, HeadLayout DEF HeadWritten
  <2>4. k < n => FieldEnd(r, k) < FieldEnd(r, n)
    BY <1>1, <2>2, HeadLayout
  <2> QED
    BY <1>2, <2>1, <2>3, <2>4
<1>5. Len(d) \in Nat /\ Len(d) >= Len(h) /\ \A j \in 1 .. Len(h) : j <= Len(d) => d[j] = h[j]
  BY DEF HeadArrived, BeginsLike
<1>6. m # CR /\ \A j \in 1 .. w : v[j] # CR
  BY DEF PlainHead
<1> HIDE DEF h, n, v, m, o, e, w, l
<1>7. e <= Len(h) /\ e <= Len(d)
  BY <1>2, <1>4, <1>5
<1>8. ASSUME NEW j \in 1 .. e PROVE d[j] = h[j]
  <2>1. j \in 1 .. Len(h) /\ j <= Len(d)
    BY <1>2, <1>5, <1>7
  <2> QED
    BY <1>5, <2>1
<1>9. d[o + 1] = m /\ d[o + 2] = Colon /\ d[o + w + 3] = CR /\ d[o + w + 4] = LF
  <2>1. o + 1 \in 1 .. e /\ o + 2 \in 1 .. e /\ o + w + 3 \in 1 .. e /\ o + w + 4 \in 1 .. e
        /\ e - 1 = o + w + 3
    BY <1>2, <1>3, SMTT(30)
  <2> QED
    BY <1>2, <1>3, <1>8, <2>1, Zenon
<1>10. \A j \in 1 .. w : d[o + 2 + j] = v[j]
  <2> SUFFICES ASSUME NEW j \in 1 .. w PROVE d[o + 2 + j] = v[j]
    OBVIOUS
  <2>1. o + 2 + j \in 1 .. e
    BY <1>2, <1>3
  <2> QED
    BY <1>3, <1>8, <2>1, Zenon
<1> DEFINE x == o + w + 2
<1>11. x \in LineEnds(d, o)
  <2>1. x \in o .. (Len(d) - 2) /\ x + 1 = o + w + 3 /\ x + 2 = o + w + 4
    BY <1>2, <1>3, <1>5, <1>7
  <2> QED
    BY <1>9, <2>1 DEF LineEnds
<1>12. ASSUME NEW p \in LineEnds(d, o) PROVE p \in Nat /\ x <= p
  <2>1. p \in o .. (Len(d) - 2) /\ d[p + 1] = CR
    BY DEF LineEnds
  <2>2. p \in Nat /\ o <= p
    BY <1>2, <1>5, <2>1
  <2>3. p # o
    BY <1>6, <1>9, <2>1, Zenon
  <2>4. p # o + 1
    <3>1. (o + 1) + 1 = o + 2 /\ Colon # CR
      BY <1>2 DEF Colon, CR
    <3> QED
      BY <1>9, <2>1, <3>1, Zenon
  <2>5. ASSUME o + 2 <= p, p < x PROVE FALSE
    <3>1. (p + 1) - (o + 2) \in 1 .. w /\ o + 2 + ((p + 1) - (o + 2)) = p + 1
      BY <1>2, <1>3, <2>2, <2>5
    <3> QED
      BY <1>6, <1>10, <2>1, <3>1, Zenon
  <2> QED
    BY <1>2, <1>3, <2>2, <2>3, <2>4, <2>5
<1>13. Smallest(LineEnds(d, o)) = x
  <2>1. LineEnds(d, o) \subseteq Nat /\ \A p \in LineEnds(d, o) : x <= p
    BY <1>12
  <2> HIDE DEF x
  <2> QED
    BY <1>11, <2>1, SmallestIs
<1>14. l = SubSeq(d, o + 1, x)
  BY <1>13 DEF LineAt, l
<1>15. x \in Int /\ o + 1 \in Int /\ o + 1 <= x /\ x - (o + 1) + 1 = w + 2 /\ x <= Len(d)
  BY <1>2, <1>3, <1>5, <1>7
<1> HIDE DEF x
<1>16. /\ l \in Seq(Nat) /\ Len(l) = x - (o + 1) + 1
       /\ \A j \in 1 .. (x - (o + 1) + 1) : l[j] = d[(o + 1) + j - 1]
  <2>1. \A j \in (o + 1) .. x : d[j] \in Nat
    <3>1. ASSUME NEW j \in (o + 1) .. x PROVE j \in 1 .. Len(d)
      <4>1. j \in Int /\ o + 1 <= j /\ j <= x
        BY <1>15
      <4> QED
        BY <1>2, <1>5, <1>15, <4>1, SMTT(30)
    <3>2. \A j \in 1 .. Len(d) : d[j] \in Nat
      OBVIOUS
    <3> QED
      BY <3>1, <3>2, Zenon
  <2> QED
    BY <1>14, <1>15, <2>1, SubSeqProperties
<1>17. \A j \in 1 .. (w + 2) : l[j] = d[o + j]
  <2>1. \A j \in 1 .. (w + 2) : (o + 1) + j - 1 = o + j
    BY <1>2, <1>3
  <2> QED
    BY <1>15, <1>16, <2>1, Zenon
<1>18. l[1] = m /\ l[2] = Colon
  <2>1. 1 \in 1 .. (w + 2) /\ 2 \in 1 .. (w + 2)
    BY <1>3
  <2> QED
    BY <1>9, <1>17, <2>1, Zenon
<1>19. \A j \in 1 .. w : l[2 + j] = v[j]
  <2>1. \A j \in 1 .. w : 2 + j \in 1 .. (w + 2) /\ o + (2 + j) = o + 2 + j
    BY <1>2, <1>3
  <2> QED
    BY <1>10, <1>17, <2>1, Zenon
<1>20. Len(l) = w + 2
  BY <1>15, <1>16
<1> QED
  BY <1>3, <1>16, <1>18, <1>19, <1>20, Zenon DEF l, v, m, o, w

\* Its name and its value are what the client looks for.
LEMMA HeaderMatches ==
  ASSUME NEW r \in ServerResponse, PlainHead(r), NEW d \in Seq(Nat), HeadArrived(d, r),
         NEW k \in 1 .. Count(r)
  PROVE  LET l == LineAt(d, FieldEnd(r, k - 1))
         IN  /\ header_name_matches(l) <=> NameOf(r, k) = Encoding
             /\ value_contains_chunked(SubSeq(l, 3, Len(l))) <=> value_contains_chunked(ValueOf(r, k))
<1> DEFINE l == LineAt(d, FieldEnd(r, k - 1))
           v == ValueOf(r, k)
           m == NameOf(r, k)
           t == SubSeq(l, 3, Len(l))
<1>1. /\ l \in Seq(Nat) /\ v \in Seq(Nat) /\ Len(v) \in Nat /\ Len(l) = Len(v) + 2
      /\ l[1] = m /\ l[2] = Colon
      /\ \A j \in 1 .. Len(v) : l[2 + j] = v[j]
  BY HeaderLine
<1> HIDE DEF l, v, m
<1>2. header_name_matches(l) <=> m = Encoding
  <2>1. Len(l) >= 2
    BY <1>1
  <2> QED
    BY <1>1, <2>1, Zenon DEF header_name_matches
<1>3. Len(t) = Len(v) /\ \A j \in 1 .. Len(v) : t[j] = v[j]
  <2>1. Len(l) \in Int /\ 3 \in Int /\ \A j \in 3 .. Len(l) : l[j] \in Nat
    BY <1>1, SMTT(30)
  <2>2. /\ t \in Seq(Nat) /\ Len(t) = IF 3 <= Len(l) THEN Len(l) - 3 + 1 ELSE 0
        /\ \A j \in 1 .. (Len(l) - 3 + 1) : t[j] = l[3 + j - 1]
    BY <2>1, SubSeqProperties
  <2>3. Len(t) = Len(v) /\ Len(l) - 3 + 1 = Len(v)
    BY <1>1, <2>2
  <2>4. \A j \in 1 .. Len(v) : 3 + j - 1 = 2 + j
    BY <1>1
  <2> QED
    BY <1>1, <2>2, <2>3, <2>4, Zenon
<1> HIDE DEF t
<1>4. value_contains_chunked(t) <=> value_contains_chunked(v)
  BY <1>3, Zenon DEF value_contains_chunked
<1> QED
  BY <1>2, <1>4, Zenon DEF l, v, m, t

\* The lines the client looks at are the header lines.
LEMMA HeaderLinesRead ==
  ASSUME NEW r \in ServerResponse, PlainHead(r), NEW d \in Seq(Nat), HeadArrived(d, r)
  PROVE  HeaderLines(d, Len(HeadOf(r))) = {FieldEnd(r, k - 1) : k \in 1 .. Count(r)}
<1> DEFINE h == HeadOf(r)
           n == Count(r)
           FE(k) == FieldEnd(r, k)
<1>1. /\ Len(h) \in Nat /\ n \in Nat /\ Len(h) = FE(n) + 2
      /\ \A k \in 0 .. n : FE(k) \in Nat /\ FE(k) >= 2 /\ h[FE(k) - 1] = CR /\ h[FE(k)] = LF
  BY HeadLayout DEF HeadWritten
<1>2. \A i, j \in 0 .. n : i < j => FE(i) < FE(j)
  BY HeadLayout
<1>3. Len(d) \in Nat /\ Len(d) >= Len(h) /\ \A j \in 1 .. Len(h) : j <= Len(d) => d[j] = h[j]
  BY DEF HeadArrived, BeginsLike
<1>4. n \in 0 .. n
  BY <1>1
<1> HIDE DEF h, n, FE
<1>5. ASSUME NEW j \in 1 .. Len(h) PROVE d[j] = h[j]
  BY <1>1, <1>3
<1>6. ASSUME NEW o \in HeaderLines(d, Len(h)) PROVE \E k \in 1 .. n : o = FE(k - 1)
  <2>1. o \in 0 .. (Len(h) - 3) /\ o - 2 \in LineEnds(d, 0)
    BY DEF HeaderLines
  <2>2. o - 2 \in 0 .. (Len(d) - 2) /\ d[(o - 2) + 1] = CR
    BY <2>1 DEF LineEnds
  <2>3. o \in Nat /\ o >= 2 /\ o < FE(n) /\ (o - 2) + 1 = o - 1 /\ o - 1 \in 1 .. Len(h) /\ o - 1 \in 1 .. FE(n)
    <3>1. FE(n) \in Nat
      BY <1>1, <1>4
    <3>2. o \in Int /\ o <= Len(h) - 3 /\ 0 <= o - 2
      BY <1>1, <1>3, <2>1, <2>2
    <3>3. o <= FE(n) - 1
      BY <1>1, <3>1, <3>2
    <3> QED
      BY <1>1, <3>1, <3>2, <3>3
  <2>4. h[o - 1] = CR
    BY <1>5, <2>2, <2>3, Zenon
  <2>5. PICK k \in 0 .. n : o - 1 = FE(k) - 1
    BY <2>3, <2>4, HeadBreaks DEF h, n, FE
  <2>6. o = FE(k)
    <3>1. FE(k) \in Nat
      BY <1>1
    <3> QED
      BY <2>3, <2>5, <3>1
  <2>7. k # n
    <3>1. FE(n) \in Nat
      BY <1>1, <1>4
    <3> QED
      BY <2>3, <2>6, <3>1
  <2>8. k + 1 \in 1 .. n /\ (k + 1) - 1 = k
    BY <1>1, <2>7
  <2> QED
    BY <2>6, <2>8, Zenon
<1>7. ASSUME NEW k \in 1 .. n PROVE FE(k - 1) \in HeaderLines(d, Len(h))
  <2>1. k - 1 \in 0 .. n /\ k - 1 < n
    BY <1>1
  <2> DEFINE o == FE(k - 1)
  <2>2. o \in Nat /\ o >= 2 /\ h[o - 1] = CR /\ h[o] = LF /\ o < FE(n) /\ FE(n) \in Nat
    BY <1>1, <1>2, <1>4, <2>1
  <2> HIDE DEF o
  <2>3. o - 1 \in 1 .. Len(h) /\ o \in 1 .. Len(h) /\ o \in 0 .. (Len(h) - 3)
        /\ (o - 2) + 1 = o - 1 /\ (o - 2) + 2 = o /\ o - 2 \in 0 .. (Len(d) - 2)
    BY <1>1, <1>3, <2>2, SMTT(60)
  <2>4. d[o - 1] = CR /\ d[o] = LF
    BY <1>5, <2>2, <2>3, Zenon
  <2>5. o - 2 \in LineEnds(d, 0)
    BY <2>3, <2>4 DEF LineEnds
  <2> QED
    BY <2>3, <2>5 DEF HeaderLines, o
<1>8. HeaderLines(d, Len(h)) = {FE(k - 1) : k \in 1 .. n}
  BY <1>6, <1>7
<1> QED
  BY <1>8 DEF h, n, FE

\* http_response_is_chunked says what the server's head says.
LEMMA ChunkedRead ==
  ASSUME NEW r \in ServerResponse, PlainHead(r), NEW d \in Seq(Nat), HeadArrived(d, r)
  PROVE  http_response_is_chunked(d, Len(HeadOf(r))) = IsChunked(r)
<1> DEFINE n == Count(r)
           FE(k) == FieldEnd(r, k)
           te == {k \in 1 .. n : NameOf(r, k) = Encoding}
           matching == {o \in HeaderLines(d, Len(HeadOf(r))) : header_name_matches(LineAt(d, o))}
           first == LineAt(d, Smallest(matching))
           Has(k) == value_contains_chunked(ValueOf(r, k))
<1>1. n \in Nat /\ \A k \in 0 .. n : FE(k) \in Nat
  BY HeadLayout DEF HeadWritten
<1>2. \A i, j \in 0 .. n : i < j => FE(i) < FE(j)
  BY HeadLayout
<1>3. \A k \in 1 .. n :
        /\ header_name_matches(LineAt(d, FE(k - 1))) <=> NameOf(r, k) = Encoding
        /\ value_contains_chunked(SubSeq(LineAt(d, FE(k - 1)), 3, Len(LineAt(d, FE(k - 1))))) <=> Has(k)
  BY HeaderMatches
<1>4. HeaderLines(d, Len(HeadOf(r))) = {FE(k - 1) : k \in 1 .. n}
  BY HeaderLinesRead
<1>5. http_response_is_chunked(d, Len(HeadOf(r)))
        = (matching # {} /\ value_contains_chunked(SubSeq(first, 3, Len(first))))
  BY DEF http_response_is_chunked, LineAt
<1>6. IsChunked(r) = (te # {} /\ Has(Smallest(te)))
  BY DEF IsChunked, Count, NameOf, ValueOf
<1> HIDE DEF n, FE, Has
<1>7. matching = {FE(k - 1) : k \in te}
  BY <1>3, <1>4
<1>8. CASE te = {}
  <2>1. matching = {}
    BY <1>7, <1>8
  <2> HIDE DEF te, matching
  <2> QED
    BY <1>5, <1>6, <1>8, <2>1, Zenon
<1>9. CASE te # {}
  <2> DEFINE s == Smallest(te)
  <2>1. te \subseteq Nat /\ te \subseteq 1 .. n
    BY <1>1
  <2>2. s \in te /\ \A k \in te : s <= k
    <3> HIDE DEF te
    <3> QED
      BY <1>9, <2>1, SmallestType
  <2>3. matching \subseteq Nat
    <3>1. \A k \in te : FE(k - 1) \in Nat
      BY <1>1
    <3> HIDE DEF te, matching
    <3> QED
      BY <1>7, <3>1
  <2>4. FE(s - 1) \in matching
    <3> HIDE DEF te, matching, s
    <3> QED
      BY <1>7, <2>2
  <2>5. ASSUME NEW o \in matching PROVE FE(s - 1) <= o
    <3> HIDE DEF te, matching, s
    <3>1. PICK k \in te : o = FE(k - 1)
      BY <1>7
    <3>2. s <= k /\ s \in 1 .. n /\ k \in 1 .. n
      BY <2>1, <2>2
    <3>3. s - 1 \in 0 .. n /\ k - 1 \in 0 .. n /\ (s = k \/ s - 1 < k - 1)
      BY <1>1, <3>2
    <3>4. FE(s - 1) \in Nat /\ FE(k - 1) \in Nat
      BY <1>1, <3>3
    <3>5. CASE s = k
      BY <3>1, <3>4, <3>5
    <3>6. CASE s - 1 < k - 1
      <4>1. FE(s - 1) < FE(k - 1)
        BY <1>2, <3>3, <3>6
      <4> QED
        BY <3>1, <3>4, <4>1
    <3> QED
      BY <3>3, <3>5, <3>6
  <2>6. Smallest(matching) = FE(s - 1)
    <3> HIDE DEF te, matching, s
    <3> QED
      BY <2>3, <2>4, <2>5, SmallestIs
  <2>7. first = LineAt(d, FE(s - 1))
    BY <2>6, Zenon
  <2>8. s \in 1 .. n
    <3> HIDE DEF s
    <3> QED
      BY <2>1, <2>2
  <2>9. value_contains_chunked(SubSeq(first, 3, Len(first))) <=> Has(s)
    <3> HIDE DEF first, s
    <3> QED
      BY <1>3, <2>7, <2>8, Zenon
  <2>10. matching # {}
    BY <2>4
  <2>11. (matching # {} /\ value_contains_chunked(SubSeq(first, 3, Len(first))))
           = (te # {} /\ Has(s))
    <3> HIDE DEF te, matching, first, s
    <3>1. (value_contains_chunked(SubSeq(first, 3, Len(first)))) \in BOOLEAN /\ Has(s) \in BOOLEAN
      BY Zenon DEF value_contains_chunked, Has
    <3> QED
      BY <1>9, <2>9, <2>10, <3>1, Zenon
  <2>12. IsChunked(r) = (te # {} /\ Has(s))
    BY <1>6
  <2> HIDE DEF te, matching, first, s
  <2> QED
    BY <1>5, <2>11, <2>12
<1> QED
  BY <1>8, <1>9

(***************************************************************************)
(* The chunks: their size lines, their data, and where they lie.           *)
(***************************************************************************)
\* The chunks of a body as the server writes them, without the last one.
ChunkParts(b) ==
  [k \in 1 .. Len(b.chunks) |-> SizeLine(b, Len(b.chunks[k])) \o b.chunks[k] \o <<CR, LF>>]

\* Where the chunk behind the first k of them starts, its size and its data.
ChunkCount(b)    == Len(b.chunks)
ChunkStart(b, k) == EndOf(ChunkParts(b), k)
SizeAt(b, k)     == IF k < ChunkCount(b) THEN Len(b.chunks[k + 1]) ELSE 0
LineLen(b, k)    == Len(LineOf(b, SizeAt(b, k)))
DataTo(b, k)     == JoinedTo(b.chunks)[k]

\* One chunk, character by character.
LEMMA ChunkLayout ==
  ASSUME NEW b \in Body, NEW k \in 1 .. ChunkCount(b)
  PROVE  LET c == b.chunks[k]
             l == LineOf(b, Len(c))
             f == ChunkParts(b)[k]
         IN  /\ c \in Seq(Nat) /\ Len(c) \in Nat /\ l \in Seq(Nat) /\ Len(l) \in Nat
             /\ f \in Seq(Nat) /\ Len(f) = Len(l) + 2 + Len(c) + 2
             /\ \A j \in 1 .. Len(l) : f[j] = l[j]
             /\ f[Len(l) + 1] = CR /\ f[Len(l) + 2] = LF
             /\ \A j \in 1 .. Len(c) : f[Len(l) + 2 + j] = c[j]
             /\ f[Len(l) + 2 + Len(c) + 1] = CR /\ f[Len(l) + 2 + Len(c) + 2] = LF
<1> DEFINE c == b.chunks[k]
           l == LineOf(b, Len(c))
           f == ChunkParts(b)[k]
           z == <<CR, LF>>
<1>1. c \in Seq(Nat) /\ Len(c) \in Nat
  <2>1. b.chunks \in Seq(Seq(Nat))
    BY DEF Body
  <2>2. c \in Seq(Nat)
    BY <2>1 DEF ChunkCount
  <2> HIDE DEF c
  <2> QED
    BY <2>2
<1>2. f = (SizeLine(b, Len(c)) \o c) \o z
  BY DEF ChunkParts, ChunkCount
<1> HIDE DEF c, f
<1>3. l \in Seq(Nat) /\ SizeLine(b, Len(c)) = l \o z
  BY <1>1, LineOfParts
<1>4. z \in Seq(Nat) /\ Len(z) = 2 /\ z[1] = CR /\ z[2] = LF
  BY DEF CR, LF
<1> HIDE DEF l, z
<1>5. Len(l) \in Nat
  BY <1>3
<1> DEFINE p == l \o z
           q == p \o c
<1>6. p \in Seq(Nat) /\ Len(p) = Len(l) + Len(z) /\ Occurs(p, 0, l) /\ Occurs(p, Len(l), z)
  BY <1>3, <1>4, Joined
<1> HIDE DEF p
<1>7. /\ q \in Seq(Nat) /\ Len(q) = Len(p) + Len(c) /\ Occurs(q, Len(p), c)
      /\ \A x \in Seq(Nat) : \A o : Occurs(p, o, x) => Occurs(q, o, x)
  BY <1>1, <1>6, Joined
<1> HIDE DEF q
<1>8. /\ f \in Seq(Nat) /\ Len(f) = Len(q) + Len(z) /\ Occurs(f, Len(q), z)
      /\ \A x \in Seq(Nat) : \A o : Occurs(q, o, x) => Occurs(f, o, x)
  <2>1. f = q \o z
    BY <1>2, <1>3 DEF q, p
  <2> QED
    BY <1>4, <1>7, <2>1, Joined
<1>9. Occurs(f, 0, l) /\ Occurs(f, Len(l), z) /\ Occurs(f, Len(p), c)
  BY <1>1, <1>3, <1>4, <1>6, <1>7, <1>8
<1>10. Len(p) = Len(l) + 2 /\ Len(q) = Len(l) + 2 + Len(c) /\ Len(f) = Len(l) + 2 + Len(c) + 2
  BY <1>1, <1>4, <1>5, <1>6, <1>7, <1>8
<1>11. /\ \A j \in 1 .. Len(l) : f[0 + j] = l[j]
       /\ \A j \in 1 .. Len(z) : f[Len(l) + j] = z[j]
       /\ \A j \in 1 .. Len(c) : f[Len(p) + j] = c[j]
       /\ \A j \in 1 .. Len(z) : f[Len(q) + j] = z[j]
  BY <1>8, <1>9 DEF Occurs
<1>12. \A j \in 1 .. Len(l) : f[j] = l[j]
  BY <1>5, <1>11
<1>13. 1 \in 1 .. Len(z) /\ 2 \in 1 .. Len(z)
  BY <1>4
<1>14. /\ f[Len(l) + 1] = CR /\ f[Len(l) + 2] = LF
       /\ f[Len(l) + 2 + Len(c) + 1] = CR /\ f[Len(l) + 2 + Len(c) + 2] = LF
       /\ \A j \in 1 .. Len(c) : f[Len(l) + 2 + j] = c[j]
  BY <1>4, <1>10, <1>11, <1>13, Zenon
<1> QED
  BY <1>1, <1>3, <1>5, <1>8, <1>10, <1>12, <1>14, Zenon DEF c, l, f

\* The chunks are a list of sequences.
LEMMA ChunksType ==
  ASSUME NEW b \in Body
  PROVE  /\ ChunkParts(b) \in Seq(Seq(Nat)) /\ Len(ChunkParts(b)) = ChunkCount(b)
         /\ ChunkCount(b) \in Nat /\ b.chunks \in Seq(Seq(Nat))
<1> DEFINE m == ChunkCount(b)
           F == ChunkParts(b)
<1>1. b.chunks \in Seq(Seq(Nat))
  BY DEF Body
<1>2. m \in Nat
  BY <1>1 DEF ChunkCount
<1>3. \A k \in 1 .. m : F[k] \in Seq(Nat)
  BY ChunkLayout
<1>4. DOMAIN F = 1 .. m /\ F = [k \in 1 .. m |-> F[k]]
  BY DEF ChunkParts, ChunkCount
<1> HIDE DEF F, m
<1>5. F \in [1 .. m -> Seq(Nat)]
  BY <1>3, <1>4
<1>6. F \in Seq(Seq(Nat)) /\ Len(F) = m
  BY <1>2, <1>5
<1> QED
  BY <1>1, <1>2, <1>6 DEF F, m

\* The size line of the chunk behind the first k.
LineWritten(C, b, k) ==
  LET l == LineOf(b, SizeAt(b, k))
      o == ChunkStart(b, k)
      w == LineLen(b, k)
  IN  /\ o \in Nat /\ SizeAt(b, k) \in Nat /\ w \in Nat /\ l \in Seq(Nat) /\ Len(l) = w
      /\ o + w + 2 <= Len(C)
      /\ \A j \in 1 .. w : C[o + j] = l[j]
      /\ C[o + w + 1] = CR /\ C[o + w + 2] = LF

\* Its data.
DataWritten(C, b, k) ==
  LET c == b.chunks[k + 1]
      o == ChunkStart(b, k) + LineLen(b, k) + 2
      w == SizeAt(b, k)
  IN  /\ c \in Seq(Nat) /\ Len(c) = w /\ w \in Nat /\ o \in Nat
      /\ o + w + 2 = ChunkStart(b, k + 1) /\ ChunkStart(b, k + 1) < Len(C)
      /\ \A j \in 1 .. w : C[o + j] = c[j]
      /\ C[o + w + 1] = CR /\ C[o + w + 2] = LF

\* Where everything lies in a body.
LEMMA BodyLayout ==
  ASSUME NEW b \in Body
  PROVE  /\ Chunks(b) \in Seq(Nat) /\ Len(Chunks(b)) \in Nat /\ ChunkCount(b) \in Nat
         /\ ChunkStart(b, 0) = 0
         /\ Len(Chunks(b)) = ChunkStart(b, ChunkCount(b)) + LineLen(b, ChunkCount(b)) + 2
         /\ \A k \in 0 .. ChunkCount(b) : LineWritten(Chunks(b), b, k)
         /\ \A k \in 0 .. (ChunkCount(b) - 1) : DataWritten(Chunks(b), b, k)
<1> DEFINE C == Chunks(b)
           m == ChunkCount(b)
           F == ChunkParts(b)
           c == Concat(F)
           z == SizeLine(b, 0)
           CS(k) == ChunkStart(b, k)
           LL(k) == LineLen(b, k)
           SA(k) == SizeAt(b, k)
<1>1. F \in Seq(Seq(Nat)) /\ Len(F) = m /\ m \in Nat
  BY ChunksType
<1>2. C = c \o z
  BY DEF Chunks, ChunkParts
<1>3. /\ c \in Seq(Nat) /\ Len(c) = CS(m) /\ CS(0) = 0
      /\ \A k \in 0 .. m : CS(k) \in Nat
      /\ \A k \in 1 .. m : F[k] \in Seq(Nat) /\ CS(k) = CS(k - 1) + Len(F[k])
      /\ \A k \in 1 .. m : Occurs(c, CS(k - 1), F[k])
  <2> HIDE DEF F, m
  <2> QED
    BY <1>1, ConcatLayout DEF ChunkStart, F
<1>4. \A i, j \in 0 .. m : i <= j => CS(i) <= CS(j)
  <2> HIDE DEF F, m
  <2> QED
    BY <1>1, EndsGrow DEF ChunkStart, F
<1> DEFINE y == LineOf(b, 0)
           t == <<CR, LF>>
<1>5. y \in Seq(Nat) /\ z = y \o t
  BY LineOfParts
<1>6. t \in Seq(Nat) /\ Len(t) = 2 /\ t[1] = CR /\ t[2] = LF
  BY DEF CR, LF
<1>7. SA(m) = 0 /\ LL(m) = Len(y)
  BY <1>1 DEF SizeAt, LineLen
<1>8. \A k \in 1 .. m : SA(k - 1) = Len(b.chunks[k]) /\ LL(k - 1) = Len(LineOf(b, Len(b.chunks[k])))
  <2> SUFFICES ASSUME NEW k \in 1 .. m
               PROVE  SA(k - 1) = Len(b.chunks[k]) /\ LL(k - 1) = Len(LineOf(b, Len(b.chunks[k])))
    OBVIOUS
  <2>1. k - 1 < m /\ (k - 1) + 1 = k
    BY <1>1
  <2>2. SA(k - 1) = Len(b.chunks[k])
    BY <2>1 DEF SizeAt
  <2> QED
    BY <2>2 DEF LineLen
<1> HIDE DEF C, m, F, c, z, y, t, CS, LL, SA
<1>9. z \in Seq(Nat) /\ Len(z) = Len(y) + Len(t) /\ Occurs(z, 0, y) /\ Occurs(z, Len(y), t)
  BY <1>5, <1>6, Joined
<1>10. /\ C \in Seq(Nat) /\ Len(C) = Len(c) + Len(z) /\ Occurs(C, Len(c), z)
       /\ \A x \in Seq(Nat) : \A o : Occurs(c, o, x) => Occurs(C, o, x)
  BY <1>2, <1>3, <1>9, Joined
<1>11. Len(C) \in Nat /\ Len(c) \in Nat /\ Len(z) \in Nat /\ Len(y) \in Nat /\ m \in 0 .. m /\ CS(m) \in Nat
  BY <1>1, <1>3, <1>5, <1>9, <1>10
<1>12. Len(C) = CS(m) + LL(m) + 2
  BY <1>3, <1>6, <1>7, <1>9, <1>10, <1>11
<1>13. LineWritten(C, b, m)
  <2>1. Occurs(C, Len(c) + 0, y) /\ Occurs(C, Len(c) + Len(y), t)
    <3>1. Len(t) \in Nat
      BY <1>6
    <3>2. Occurs(C, Len(c) + 0, y)
      BY <1>9, <1>10, <1>11, OccursIn
    <3>3. Occurs(C, Len(c) + Len(y), t)
      BY <1>9, <1>10, <1>11, <3>1, OccursIn
    <3> QED
      BY <3>2, <3>3
  <2>2. /\ \A j \in 1 .. Len(y) : C[(Len(c) + 0) + j] = y[j]
        /\ \A j \in 1 .. Len(t) : C[(Len(c) + Len(y)) + j] = t[j]
    BY <2>1 DEF Occurs
  <2>3. /\ CS(m) \in Nat /\ SA(m) \in Nat /\ LL(m) \in Nat /\ y \in Seq(Nat) /\ Len(y) = LL(m)
        /\ CS(m) + LL(m) + 2 <= Len(C) /\ Len(c) + 0 = CS(m) /\ Len(c) = CS(m)
    BY <1>3, <1>5, <1>7, <1>11, <1>12
  <2>4. \A j \in 1 .. LL(m) : C[CS(m) + j] = y[j]
    BY <2>2, <2>3, Zenon
  <2>5. C[CS(m) + LL(m) + 1] = CR /\ C[CS(m) + LL(m) + 2] = LF
    <3>1. 1 \in 1 .. Len(t) /\ 2 \in 1 .. Len(t)
      BY <1>6
    <3> QED
      BY <1>6, <2>2, <2>3, <3>1, Zenon
  <2>6. y = LineOf(b, SA(m))
    BY <1>7, Zenon DEF y
  <2> QED
    BY <2>3, <2>4, <2>5, <2>6, Zenon DEF LineWritten, CS, LL, SA
<1>14. ASSUME NEW k \in 1 .. m PROVE LineWritten(C, b, k - 1) /\ DataWritten(C, b, k - 1)
  <2> DEFINE d == b.chunks[k]
             l == LineOf(b, Len(d))
             f == F[k]
             o == CS(k - 1)
             v == Len(l)
             w == Len(d)
  <2>1. /\ d \in Seq(Nat) /\ w \in Nat /\ l \in Seq(Nat) /\ v \in Nat
        /\ f \in Seq(Nat) /\ Len(f) = v + 2 + w + 2
        /\ \A j \in 1 .. v : f[j] = l[j]
        /\ f[v + 1] = CR /\ f[v + 2] = LF
        /\ \A j \in 1 .. w : f[v + 2 + j] = d[j]
        /\ f[v + 2 + w + 1] = CR /\ f[v + 2 + w + 2] = LF
    BY ChunkLayout DEF m, F
  <2>2. k - 1 \in 0 .. m /\ k \in 0 .. m /\ (k - 1) + 1 = k /\ k <= m
    BY <1>1
  <2>3. o \in Nat /\ CS(k) = o + Len(f) /\ Occurs(C, o, f) /\ CS(k) \in Nat
    BY <1>3, <1>10, <2>1, <2>2
  <2>4. SA(k - 1) = w /\ LL(k - 1) = v
    BY <1>8
  <2>5. l = LineOf(b, SA(k - 1)) /\ d = b.chunks[(k - 1) + 1]
    BY <2>2, <2>4, Zenon
  <2>6. CS(k) <= CS(m)
    BY <1>4, <1>11, <2>2
  <2> HIDE DEF d, l, f, o, v, w
  <2>7. CS(k) = o + v + 2 + w + 2 /\ CS(k) < Len(C)
    <3>1. LL(m) \in Nat
      BY <1>7, <1>11
    <3>2. CS(k) = o + (v + 2 + w + 2)
      BY <2>1, <2>3
    <3>3. o \in Nat /\ v \in Nat /\ w \in Nat /\ CS(k) \in Nat /\ CS(m) \in Nat
      BY <1>11, <2>1, <2>3
    <3>4. CS(k) = o + v + 2 + w + 2
      BY <3>2, <3>3
    <3>5. CS(k) < Len(C)
      BY <1>12, <2>6, <3>1, <3>3
    <3> QED
      BY <3>4, <3>5
  <2>8. \A j \in 1 .. (v + 2 + w + 2) : C[o + j] = f[j]
    BY <2>1, <2>3 DEF Occurs
  <2>9. \A j \in 1 .. v : C[o + j] = l[j]
    <3>1. \A j \in 1 .. v : j \in 1 .. (v + 2 + w + 2)
      BY <2>1
    <3> QED
      BY <2>1, <2>8, <3>1, Zenon
  <2>10. C[o + v + 1] = CR /\ C[o + v + 2] = LF
    <3>1. v + 1 \in 1 .. (v + 2 + w + 2) /\ v + 2 \in 1 .. (v + 2 + w + 2)
          /\ o + (v + 1) = o + v + 1 /\ o + (v + 2) = o + v + 2
      BY <2>1, <2>3
    <3> QED
      BY <2>1, <2>8, <3>1, Zenon
  <2>11. \A j \in 1 .. w : C[o + v + 2 + j] = d[j]
    <3>1. \A j \in 1 .. w : v + 2 + j \in 1 .. (v + 2 + w + 2) /\ o + (v + 2 + j) = o + v + 2 + j
      BY <2>1, <2>3
    <3> QED
      BY <2>1, <2>8, <3>1, Zenon
  <2>12. C[o + v + 2 + w + 1] = CR /\ C[o + v + 2 + w + 2] = LF
    <3>1. v + 2 + w + 1 \in 1 .. (v + 2 + w + 2) /\ v + 2 + w + 2 \in 1 .. (v + 2 + w + 2)
          /\ o + (v + 2 + w + 1) = o + v + 2 + w + 1 /\ o + (v + 2 + w + 2) = o + v + 2 + w + 2
      BY <2>1, <2>3
    <3> QED
      BY <2>1, <2>8, <3>1, Zenon
  <2>13. o + v + 2 <= Len(C) /\ o + v + 2 \in Nat
    <3>1. o \in Nat /\ v \in Nat /\ w \in Nat /\ Len(C) \in Nat
      BY <1>11, <2>1, <2>3
    <3> QED
      BY <2>7, <3>1
  <2>14. v = Len(l) /\ w = Len(d)
    BY DEF v, w
  <2>15. LineWritten(C, b, k - 1)
    BY <2>1, <2>3, <2>4, <2>5, <2>9, <2>10, <2>13, <2>14, Zenon DEF LineWritten, CS, LL, SA, o
  <2>16. DataWritten(C, b, k - 1)
    BY <2>1, <2>2, <2>4, <2>5, <2>7, <2>11, <2>12, <2>13, <2>14, Zenon DEF DataWritten, CS, LL, SA, o
  <2> QED
    BY <2>15, <2>16
<1>15. \A k \in 0 .. m : LineWritten(C, b, k)
  <2> SUFFICES ASSUME NEW k \in 0 .. m PROVE LineWritten(C, b, k)
    OBVIOUS
  <2>1. k = m \/ (k + 1 \in 1 .. m /\ (k + 1) - 1 = k)
    BY <1>1
  <2> QED
    BY <1>13, <1>14, <2>1, Zenon
<1>16. \A k \in 0 .. (m - 1) : DataWritten(C, b, k)
  <2> SUFFICES ASSUME NEW k \in 0 .. (m - 1) PROVE DataWritten(C, b, k)
    OBVIOUS
  <2>1. k + 1 \in 1 .. m /\ (k + 1) - 1 = k
    BY <1>1
  <2> QED
    BY <1>14, <2>1, Zenon
<1> QED
  BY <1>1, <1>3, <1>10, <1>11, <1>12, <1>15, <1>16, Zenon DEF C, m, CS, LL

\* The data of the first chunks.
LEMMA DataLayout ==
  ASSUME NEW b \in Body
  PROVE  /\ DataTo(b, 0) = <<>> /\ Data(b) = DataTo(b, ChunkCount(b)) /\ Len(Data(b)) \in Nat
         /\ \A k \in 0 .. ChunkCount(b) :
              /\ DataTo(b, k) \in Seq(Nat) /\ Len(DataTo(b, k)) \in Nat
              /\ Len(DataTo(b, k)) <= Len(Data(b)) /\ Len(DataTo(b, k)) <= ChunkStart(b, k)
         /\ \A k \in 0 .. (ChunkCount(b) - 1) :
              /\ DataTo(b, k + 1) = DataTo(b, k) \o b.chunks[k + 1]
              /\ Len(DataTo(b, k + 1)) = Len(DataTo(b, k)) + SizeAt(b, k)
<1> DEFINE m == ChunkCount(b)
           D(k) == DataTo(b, k)
           L(k) == Len(D(k))
           CS(k) == ChunkStart(b, k)
<1>1. b.chunks \in Seq(Seq(Nat)) /\ m \in Nat /\ m = Len(b.chunks)
  BY ChunksType DEF ChunkCount
<1>2. /\ D(0) = <<>> /\ Data(b) = D(m)
      /\ \A k \in 0 .. m : D(k) \in Seq(Nat) /\ L(k) \in Nat
      /\ \A k \in 1 .. m : D(k) = D(k - 1) \o b.chunks[k] /\ L(k) = L(k - 1) + Len(b.chunks[k])
  BY <1>1, ConcatLayout DEF Data, DataTo, EndOf
<1>3. \A i, j \in 0 .. m : i <= j => L(i) <= L(j)
  BY <1>1, EndsGrow DEF DataTo, EndOf
<1>4. \A k \in 0 .. m : CS(k) \in Nat
  BY BodyLayout DEF LineWritten
<1>5. ASSUME NEW k \in 0 .. (m - 1)
      PROVE  /\ D(k + 1) = D(k) \o b.chunks[k + 1] /\ L(k + 1) = L(k) + SizeAt(b, k)
             /\ L(k + 1) - L(k) <= CS(k + 1) - CS(k)
  <2> HIDE DEF L, D, CS
  <2>1. k + 1 \in 1 .. m /\ (k + 1) - 1 = k /\ k < m /\ k \in 0 .. m /\ k + 1 \in 0 .. m
    BY <1>1
  <2>2. D(k + 1) = D(k) \o b.chunks[k + 1] /\ L(k + 1) = L(k) + Len(b.chunks[k + 1])
    BY <1>2, <2>1
  <2>3. SizeAt(b, k) = Len(b.chunks[k + 1])
    BY <2>1 DEF SizeAt, m
  <2>4. DataWritten(Chunks(b), b, k) /\ LineWritten(Chunks(b), b, k)
    BY <2>1, BodyLayout DEF m
  <2>5. /\ SizeAt(b, k) \in Nat /\ LineLen(b, k) \in Nat
        /\ CS(k) + LineLen(b, k) + 2 + SizeAt(b, k) + 2 = CS(k + 1)
    BY <2>4 DEF DataWritten, LineWritten, CS
  <2>6. L(k) \in Nat /\ CS(k) \in Nat /\ L(k + 1) = L(k) + SizeAt(b, k)
    BY <1>2, <1>4, <2>1, <2>2, <2>3
  <2>7. L(k + 1) - L(k) <= CS(k + 1) - CS(k)
    BY <2>5, <2>6
  <2> QED
    BY <2>2, <2>6, <2>7
<1> HIDE DEF m, CS, L, D
<1> DEFINE S == {k \in Nat : k <= m => L(k) <= CS(k)}
<1>6. 0 \in S
  <2>1. L(0) = 0 /\ CS(0) = 0
    BY <1>2, BodyLayout DEF L, CS
  <2> QED
    BY <2>1
<1>7. ASSUME NEW k \in Nat, k \in S PROVE k + 1 \in S
  <2> SUFFICES ASSUME k + 1 <= m PROVE L(k + 1) <= CS(k + 1)
    OBVIOUS
  <2>1. k \in 0 .. (m - 1) /\ k \in 0 .. m /\ k + 1 \in 0 .. m /\ k <= m
    BY <1>1
  <2>2. L(k) \in Nat /\ L(k + 1) \in Nat /\ CS(k) \in Nat /\ CS(k + 1) \in Nat
    BY <1>2, <1>4, <2>1
  <2>3. L(k) <= CS(k) /\ L(k + 1) - L(k) <= CS(k + 1) - CS(k)
    BY <1>5, <1>7, <2>1
  <2> QED
    BY <2>2, <2>3
<1>8. Nat \subseteq S
  <2> HIDE DEF S
  <2> QED
    BY <1>6, <1>7, SetInduction
<1>9. \A k \in 0 .. m : L(k) <= CS(k)
  BY <1>1, <1>8
<1>10. m \in 0 .. m
  BY <1>1
<1>11. \A k \in 0 .. m : L(k) <= L(m)
  BY <1>1, <1>3, <1>10
<1>12. Len(Data(b)) = L(m) /\ L(m) \in Nat
  BY <1>2, <1>10 DEF L
<1> QED
  BY <1>2, <1>5, <1>9, <1>11, <1>12, Zenon DEF m, D, L, CS

\* No size is larger than the body.
LEMMA SizeAtBound ==
  ASSUME NEW b \in Body, NEW k \in 0 .. ChunkCount(b), Len(Chunks(b)) <= SizeMax, SizeMax \in Nat
  PROVE  SizeAt(b, k) \in Nat /\ SizeAt(b, k) <= SizeMax
<1>1. Len(Chunks(b)) \in Nat /\ ChunkCount(b) \in Nat
  BY BodyLayout
<1>2. LineWritten(Chunks(b), b, k)
  BY BodyLayout
<1>3. ChunkStart(b, k) \in Nat /\ LineLen(b, k) \in Nat /\ SizeAt(b, k) \in Nat
  BY <1>2 DEF LineWritten
<1>4. CASE k < ChunkCount(b)
  <2>1. k \in 0 .. (ChunkCount(b) - 1)
    BY <1>1, <1>4
  <2>2. DataWritten(Chunks(b), b, k)
    BY <2>1, BodyLayout
  <2>3. /\ ChunkStart(b, k) + LineLen(b, k) + 2 + SizeAt(b, k) + 2 = ChunkStart(b, k + 1)
        /\ ChunkStart(b, k + 1) < Len(Chunks(b))
    BY <2>2 DEF DataWritten
  <2> QED
    BY <1>1, <1>3, <2>3
<1>5. CASE ~(k < ChunkCount(b))
  BY <1>5 DEF SizeAt
<1> QED
  BY <1>4, <1>5

\* A size line is found where it is, if it has arrived, and nothing is taken for
\* it before that.
LEMMA LineFound ==
  ASSUME NEW b \in Body, PlainBody(b), NEW k \in 0 .. ChunkCount(b), NEW x \in Seq(Nat),
         BeginsLike(x, Chunks(b)), Len(Chunks(b)) <= SizeMax, SizeMax \in Nat
  PROVE  LET o == ChunkStart(b, k)
             e == ChunkStart(b, k) + LineLen(b, k)
         IN  /\ o \in Nat /\ e \in Nat /\ SizeAt(b, k) \in Nat /\ Len(x) \in Nat
             /\ e + 2 <= Len(x) <=> LineEnds(x, o) # {}
             /\ LineEnds(x, o) # {} =>
                  /\ Smallest(LineEnds(x, o)) = e
                  /\ parse_chunk_size(SubSeq(x, o + 1, e)) = SizeAt(b, k)
<1> DEFINE C == Chunks(b)
           l == LineOf(b, SizeAt(b, k))
           o == ChunkStart(b, k)
           w == LineLen(b, k)
           e == o + w
<1>1. Len(C) \in Nat /\ LineWritten(C, b, k)
  BY BodyLayout
<1>2. /\ o \in Nat /\ SizeAt(b, k) \in Nat /\ w \in Nat /\ l \in Seq(Nat) /\ Len(l) = w
      /\ o + w + 2 <= Len(C)
      /\ \A j \in 1 .. w : C[o + j] = l[j]
      /\ C[o + w + 1] = CR /\ C[o + w + 2] = LF
  BY <1>1 DEF LineWritten
<1>3. parse_chunk_size(l) = SizeAt(b, k) /\ \A j \in 1 .. w : l[j] # CR
  <2>1. SizeAt(b, k) \in Nat /\ SizeAt(b, k) <= SizeMax
    BY SizeAtBound
  <2> QED
    BY <1>2, <2>1, SizeLineRead
<1>4. Len(x) \in Nat /\ \A j \in 1 .. Len(C) : j <= Len(x) => x[j] = C[j]
  BY DEF BeginsLike
<1> HIDE DEF C, l, o, w
<1>5. ASSUME NEW p \in LineEnds(x, o) PROVE p \in Nat /\ e <= p /\ p + 2 <= Len(x)
  <2>1. p \in o .. (Len(x) - 2) /\ x[p + 1] = CR
    BY DEF LineEnds
  <2>2. p \in Nat /\ o <= p /\ p + 2 <= Len(x)
    BY <1>2, <1>4, <2>1
  <2>3. ASSUME p < e PROVE FALSE
    <3>1. (p + 1) - o \in 1 .. w /\ o + ((p + 1) - o) = p + 1 /\ p + 1 \in 1 .. Len(C) /\ p + 1 <= Len(x)
      <4>1. o \in Nat /\ w \in Nat /\ Len(C) \in Nat /\ Len(x) \in Nat /\ o + w + 2 <= Len(C)
        BY <1>1, <1>2, <1>4
      <4>2. p \in Nat /\ o <= p /\ p < o + w
        BY <2>2, <2>3
      <4>3. (p + 1) - o \in 1 .. w /\ o + ((p + 1) - o) = p + 1
        BY <4>1, <4>2
      <4>4. p + 1 \in 1 .. Len(C)
        BY <4>1, <4>2
      <4>5. p + 1 <= Len(x)
        BY <2>2, <4>1
      <4> QED
        BY <4>3, <4>4, <4>5
    <3>2. x[p + 1] = C[p + 1]
      BY <1>4, <3>1
    <3>3. C[p + 1] # CR
      BY <1>2, <1>3, <3>1, Zenon
    <3> QED
      BY <2>1, <3>2, <3>3
  <2> QED
    BY <1>2, <2>2, <2>3
<1>6. ASSUME e + 2 <= Len(x) PROVE e \in LineEnds(x, o)
  <2>1. /\ e + 1 \in 1 .. Len(C) /\ e + 1 <= Len(x) /\ e + 2 \in 1 .. Len(C)
        /\ e \in o .. (Len(x) - 2)
    BY <1>1, <1>2, <1>4, <1>6
  <2>2. x[e + 1] = CR /\ x[e + 2] = LF
    BY <1>2, <1>4, <1>6, <2>1, Zenon
  <2> QED
    BY <2>1, <2>2 DEF LineEnds
<1>7. e \in Nat
  BY <1>2
<1>8. ASSUME LineEnds(x, o) # {} PROVE e + 2 <= Len(x)
  <2>1. PICK p \in LineEnds(x, o) : TRUE
    BY <1>8
  <2>2. p \in Nat /\ e <= p /\ p + 2 <= Len(x)
    BY <1>5
  <2> QED
    BY <1>4, <1>7, <2>2
<1>9. ASSUME LineEnds(x, o) # {}
      PROVE  /\ Smallest(LineEnds(x, o)) = e
             /\ parse_chunk_size(SubSeq(x, o + 1, e)) = SizeAt(b, k)
  <2>1. e + 2 <= Len(x) /\ e \in LineEnds(x, o)
    BY <1>6, <1>8, <1>9
  <2>2. LineEnds(x, o) \subseteq Nat /\ \A p \in LineEnds(x, o) : e <= p
    BY <1>5
  <2>3. Smallest(LineEnds(x, o)) = e
    <3> HIDE DEF e
    <3> QED
      BY <2>1, <2>2, SmallestIs
  <2> DEFINE t == SubSeq(x, o + 1, e)
  <2>4. t = l
    <3>1. \A j \in (o + 1) .. e : x[j] \in Nat
      <4>1. ASSUME NEW j \in (o + 1) .. e PROVE j \in 1 .. Len(x)
        BY <1>2, <1>4, <2>1
      <4>2. \A j \in 1 .. Len(x) : x[j] \in Nat
        OBVIOUS
      <4> QED
        BY <4>1, <4>2, Zenon
    <3>2. o + 1 \in Int /\ e \in Int /\ e - (o + 1) + 1 = w /\ (o + 1 <= e \/ w = 0)
      BY <1>2, SMTT(30)
    <3> HIDE DEF e
    <3>3. /\ t \in Seq(Nat) /\ Len(t) = IF o + 1 <= e THEN e - (o + 1) + 1 ELSE 0
          /\ \A j \in 1 .. (e - (o + 1) + 1) : t[j] = x[(o + 1) + j - 1]
      BY <3>1, <3>2, SubSeqProperties
    <3> HIDE DEF t
    <3>4. Len(t) = w
      <4>1. o \in Nat /\ w \in Nat /\ e = o + w
        BY <1>2 DEF e
      <4> QED
        BY <3>3, <4>1
    <3>5. ASSUME NEW j \in 1 .. w PROVE t[j] = l[j]
      <4>1. (o + 1) + j - 1 = o + j /\ o + j \in 1 .. Len(C) /\ o + j <= Len(x)
        <5>1. o \in Nat /\ w \in Nat /\ Len(C) \in Nat /\ Len(x) \in Nat /\ o + w + 2 <= Len(C)
          BY <1>1, <1>2, <1>4
        <5>2. o + w + 2 <= Len(x)
          BY <2>1 DEF e
        <5>3. j \in Nat /\ 1 <= j /\ j <= w
          BY <5>1
        <5>4. (o + 1) + j - 1 = o + j /\ o + j \in 1 .. Len(C)
          BY <5>1, <5>3
        <5> QED
          BY <5>1, <5>2, <5>3, <5>4
      <4>2. t[j] = x[o + j] /\ x[o + j] = C[o + j] /\ C[o + j] = l[j]
        BY <1>2, <1>4, <3>2, <3>3, <4>1
      <4> QED
        BY <4>2
    <3> QED
      BY <1>2, <3>3, <3>4, <3>5, SeqEqual
  <2> QED
    BY <1>3, <2>3, <2>4, Zenon
<1>10. e + 2 <= Len(x) <=> LineEnds(x, o) # {}
  BY <1>6, <1>8
<1> QED
  BY <1>2, <1>4, <1>7, <1>9, <1>10, Zenon DEF o, w

(***************************************************************************)
(* What arrived, and what the server sent.                                 *)
(***************************************************************************)
\* What is assumed of a server's response.
LEMMA SentPlain ==
  ASSUME NEW r \in Responses
  PROVE  /\ r \in ServerResponse /\ PlainHead(r) /\ r.body \in Body /\ PlainBody(r.body)
         /\ Len(BodyOf(r)) <= SizeMax /\ SizeMax \in Nat
<1>1. r \in ServerResponse /\ SizeMax \in Nat
  BY ResponseAssumption DEF ServerResponse
<1>2. r.body \in Body
  BY <1>1 DEF ServerResponse
<1>3. Len(BodyOf(r)) <= SizeMax
  BY SizeAssumption
<1>4. /\ \A k \in 1 .. Len(r.start) : r.start[k] # CR
      /\ \A k \in 1 .. Len(r.headers) :
           /\ r.headers[k].name # CR
           /\ \A j \in 1 .. Len(r.headers[k].value) : r.headers[k].value[j] # CR
      /\ \A k \in 1 .. Len(r.body.chunks) : r.body.chunks[k] # <<>>
      /\ \A k \in 1 .. Len(r.body.extension) : r.body.extension[k] # CR
      /\ \E n \in 0 .. Len(r.body.extension) :
           /\ \A k \in 1 .. n : r.body.extension[k] \in {Space, Tab}
           /\ n < Len(r.body.extension) => r.body.extension[n + 1] = Semicolon
  BY ServerAssumption
<1>5. PlainHead(r)
  BY <1>4, Zenon DEF PlainHead, Count, NameOf, ValueOf
<1>6. PlainBody(r.body)
  <2> DEFINE e == r.body.extension
  <2>1. PICK n \in 0 .. Len(e) : /\ \A k \in 1 .. n : e[k] \in {Space, Tab}
                                 /\ n < Len(e) => e[n + 1] = Semicolon
    BY <1>4, Zenon
  <2>2. e \in Seq(Nat)
    BY <1>2 DEF Body
  <2>3. Len(e) \in Nat
    BY <2>2
  <2> HIDE DEF e
  <2>4. n \in Nat
    BY <2>3
  <2>5. BlanksBefore(e, n)
    BY <2>1, Zenon DEF BlanksBefore
  <2> QED
    BY <1>4, <2>4, <2>5, Zenon DEF PlainBody, e
<1> QED
  BY <1>1, <1>2, <1>3, <1>5, <1>6

\* Two sequences, one behind the other, begin like the first.
LEMMA BeginsConcat ==
  ASSUME NEW h \in Seq(Nat), NEW x \in Seq(Nat)
  PROVE  /\ h \o x \in Seq(Nat) /\ Len(h \o x) = Len(h) + Len(x) /\ BeginsLike(h \o x, h)
         /\ Len(h) \in Nat /\ Len(x) \in Nat
         /\ \A j \in 1 .. Len(h) : (h \o x)[j] = h[j]
         /\ \A j \in 1 .. Len(x) : (h \o x)[Len(h) + j] = x[j]
<1>1. /\ h \o x \in Seq(Nat) /\ Len(h \o x) = Len(h) + Len(x)
      /\ Occurs(h \o x, 0, h) /\ Occurs(h \o x, Len(h), x)
  BY OccursConcat
<1>2. Len(h) \in Nat /\ Len(x) \in Nat
  OBVIOUS
<1> DEFINE s == h \o x
<1> HIDE DEF s
<1>3. /\ \A j \in 1 .. Len(h) : s[0 + j] = h[j]
      /\ \A j \in 1 .. Len(x) : s[Len(h) + j] = x[j]
  BY <1>1 DEF Occurs, s
<1>4. \A j \in 1 .. Len(h) : s[j] = h[j]
  BY <1>2, <1>3
<1> QED
  BY <1>1, <1>2, <1>3, <1>4, Zenon DEF BeginsLike, s

\* The first characters of a sequence begin like it, and like its first part.
LEMMA BeginsPrefix ==
  ASSUME NEW h \in Seq(Nat), NEW x \in Seq(Nat), NEW n \in 0 .. Len(h \o x)
  PROVE  LET p == SubSeq(h \o x, 1, n)
         IN  p \in Seq(Nat) /\ Len(p) = n /\ BeginsLike(p, h \o x) /\ BeginsLike(p, h)
<1> DEFINE s == h \o x
           p == SubSeq(s, 1, n)
<1>1. /\ s \in Seq(Nat) /\ Len(s) = Len(h) + Len(x) /\ Len(h) \in Nat /\ Len(x) \in Nat
      /\ \A j \in 1 .. Len(h) : s[j] = h[j]
  BY BeginsConcat
<1>2. n \in 0 .. Len(s)
  OBVIOUS
<1> HIDE DEF s
<1>3. p \in Seq(Nat) /\ Len(p) = n /\ Occurs(s, 0, p)
  BY <1>1, <1>2, OccursPrefix
<1> HIDE DEF p
<1>4. \A j \in 1 .. n : s[0 + j] = p[j]
  BY <1>3 DEF Occurs
<1>5. n \in Nat
  BY <1>1, <1>2
<1>6. BeginsLike(p, s)
  <2> SUFFICES ASSUME NEW j \in 1 .. Len(s), j <= n PROVE p[j] = s[j]
    BY <1>3 DEF BeginsLike
  <2>1. j \in 1 .. n /\ 0 + j = j
    BY <1>1, <1>5
  <2> QED
    BY <1>4, <2>1, Zenon
<1>7. BeginsLike(p, h)
  <2> SUFFICES ASSUME NEW j \in 1 .. Len(h), j <= n PROVE p[j] = h[j]
    BY <1>3 DEF BeginsLike
  <2>1. j \in 1 .. n /\ 0 + j = j
    BY <1>1, <1>5
  <2> QED
    BY <1>1, <1>4, <2>1, Zenon
<1> QED
  BY <1>3, <1>6, <1>7, Zenon DEF s, p

\* What follows the head in what arrived.
LEMMA TailOf ==
  ASSUME NEW h \in Seq(Nat), NEW d \in Seq(Nat), BeginsLike(d, h), Len(d) >= Len(h)
  PROVE  LET t == SubSeq(d, Len(h) + 1, Len(d))
         IN  t \in Seq(Nat) /\ h \o t = d
<1> DEFINE n == Len(h)
           t == SubSeq(d, n + 1, Len(d))
<1>1. n \in Nat /\ Len(d) \in Nat /\ n <= Len(d) /\ \A j \in 1 .. n : d[j] = h[j]
  BY DEF BeginsLike
<1> HIDE DEF n
<1>2. \A k \in (n + 1) .. Len(d) : d[k] \in Nat
  <2>1. \A k \in (n + 1) .. Len(d) : k \in 1 .. Len(d)
    BY <1>1
  <2>2. \A k \in 1 .. Len(d) : d[k] \in Nat
    OBVIOUS
  <2> QED
    BY <2>1, <2>2, Zenon
<1>3. n + 1 \in Int /\ Len(d) \in Int
  BY <1>1
<1>4. /\ t \in Seq(Nat) /\ Len(t) = IF n + 1 <= Len(d) THEN Len(d) - (n + 1) + 1 ELSE 0
      /\ \A k \in 1 .. (Len(d) - (n + 1) + 1) : t[k] = d[(n + 1) + k - 1]
  BY <1>2, <1>3, SubSeqProperties
<1> HIDE DEF t
<1>5. Len(t) = Len(d) - n
  BY <1>1, <1>4
<1>6. \A k \in 1 .. Len(t) : t[k] = d[n + k]
  <2>1. \A k \in 1 .. Len(t) : k \in 1 .. (Len(d) - (n + 1) + 1) /\ (n + 1) + k - 1 = n + k
    BY <1>1, <1>5
  <2> QED
    BY <1>4, <2>1, Zenon
<1> DEFINE s == h \o t
<1>7. /\ s \in Seq(Nat) /\ Len(s) = n + Len(t)
      /\ \A j \in 1 .. n : s[j] = h[j] /\ \A k \in 1 .. Len(t) : s[n + k] = t[k]
  BY <1>4, BeginsConcat DEF n
<1>8. \A j \in 1 .. n : s[j] = h[j]
  BY <1>4, BeginsConcat DEF n
<1>9. \A k \in 1 .. Len(t) : s[n + k] = t[k]
  BY <1>4, BeginsConcat DEF n
<1> HIDE DEF s
<1>10. Len(s) = Len(d)
  BY <1>1, <1>5, <1>7
<1>11. ASSUME NEW j \in 1 .. Len(d) PROVE s[j] = d[j]
  <2>1. CASE j <= n
    BY <1>1, <1>8, <2>1
  <2>2. CASE ~(j <= n)
    <3>1. j - n \in 1 .. Len(t) /\ n + (j - n) = j
      BY <1>1, <1>5, <2>2
    <3> QED
      BY <1>6, <1>9, <3>1, Zenon
  <2> QED
    BY <2>1, <2>2
<1>12. s = d
  BY <1>7, <1>10, <1>11, SeqEqual
<1> QED
  BY <1>4, <1>12 DEF s, t, n

\* What arrived of a chunked body.
LEMMA ChunksArrived ==
  ASSUME NEW r \in Responses, IsChunked(r), NEW x \in Seq(Nat),
         BeginsLike(HeadOf(r) \o x, HeadOf(r) \o BodyOf(r)),
         Len(HeadOf(r) \o x) <= Len(HeadOf(r) \o BodyOf(r))
  PROVE  /\ BeginsLike(x, Chunks(r.body)) /\ Len(x) <= SizeMax /\ Len(Chunks(r.body)) <= SizeMax
         /\ Len(x) \in Nat /\ Len(Chunks(r.body)) \in Nat
         /\ Len(HeadOf(r) \o x) = Len(HeadOf(r) \o BodyOf(r)) => Len(x) >= Len(Chunks(r.body)) + 2
         /\ Len(HeadOf(r) \o x) < Len(HeadOf(r)) + Len(Chunks(r.body)) => Len(x) < Len(Chunks(r.body))
<1> DEFINE h == HeadOf(r)
           B == BodyOf(r)
           C == Chunks(r.body)
           t == r.body.trailer
           z == <<CR, LF>>
           d == h \o x
           w == h \o B
<1>1. /\ r \in ServerResponse /\ r.body \in Body /\ Len(B) <= SizeMax /\ SizeMax \in Nat
  BY SentPlain
<1>2. h \in Seq(Nat) /\ B \in Seq(Nat) /\ C \in Seq(Nat) /\ t \in Seq(Nat)
  BY <1>1, HeadType, BodyType, BodyLayout DEF Body
<1>3. z \in Seq(Nat) /\ Len(z) = 2
  BY DEF CR, LF
<1>4. B = (C \o t) \o z
  BY DEF BodyOf
<1>5. BeginsLike(d, w) /\ Len(d) <= Len(w)
  OBVIOUS
<1> HIDE DEF h, B, C, t, z
<1>6. /\ C \o t \in Seq(Nat) /\ Len(C \o t) = Len(C) + Len(t) /\ Len(C) \in Nat /\ Len(t) \in Nat
      /\ \A j \in 1 .. Len(C) : (C \o t)[j] = C[j]
  BY <1>2, BeginsConcat
<1>7. /\ Len(B) = Len(C \o t) + Len(z)
      /\ \A j \in 1 .. Len(C \o t) : B[j] = (C \o t)[j]
  BY <1>3, <1>4, <1>6, BeginsConcat
<1>8. Len(B) = Len(C) + Len(t) + 2 /\ Len(B) \in Nat /\ \A j \in 1 .. Len(C) : B[j] = C[j]
  <2>1. \A j \in 1 .. Len(C) : j \in 1 .. Len(C \o t)
    BY <1>6
  <2>2. \A j \in 1 .. Len(C) : B[j] = C[j]
    BY <1>6, <1>7, <2>1, Zenon
  <2>3. Len(B) = Len(C) + Len(t) + 2
    BY <1>3, <1>6, <1>7
  <2> QED
    BY <1>6, <2>2, <2>3
<1>9. /\ Len(d) = Len(h) + Len(x) /\ Len(h) \in Nat /\ Len(x) \in Nat
      /\ \A j \in 1 .. Len(x) : d[Len(h) + j] = x[j]
  BY <1>2, BeginsConcat
<1>10. Len(w) = Len(h) + Len(B) /\ \A j \in 1 .. Len(B) : w[Len(h) + j] = B[j]
  BY <1>2, BeginsConcat
<1>11. \A j \in 1 .. Len(w) : j <= Len(d) => d[j] = w[j]
  BY <1>5 DEF BeginsLike
<1> HIDE DEF d, w
<1>12. ASSUME NEW j \in 1 .. Len(C), j <= Len(x) PROVE x[j] = C[j]
  <2>1. /\ Len(h) + j \in 1 .. Len(w) /\ Len(h) + j <= Len(d)
        /\ j \in 1 .. Len(B) /\ j \in 1 .. Len(x)
    BY <1>6, <1>8, <1>9, <1>10, <1>12
  <2> QED
    BY <1>8, <1>9, <1>10, <1>11, <2>1, Zenon
<1>13. BeginsLike(x, C)
  BY <1>12 DEF BeginsLike
<1>14. Len(x) <= SizeMax /\ Len(C) <= SizeMax
  BY <1>1, <1>5, <1>6, <1>8, <1>9, <1>10
<1>15. Len(d) = Len(w) => Len(x) >= Len(C) + 2
  BY <1>6, <1>8, <1>9, <1>10
<1>16. Len(d) < Len(h) + Len(C) => Len(x) < Len(C)
  BY <1>6, <1>9
<1> QED
  BY <1>6, <1>9, <1>13, <1>14, <1>15, <1>16, Zenon DEF h, B, C, d, w

(***************************************************************************)
(* The decoder.                                                            *)
(***************************************************************************)
\* What the variables hold.
ResponseTypeOK ==
  /\ pc \in {"server", "parse", "line", "data", "returned", "printed", "failed", "no_memory"}
  /\ sent \in ServerResponse /\ data \in Seq(Nat) /\ input \in Seq(Nat) /\ output \in Seq(Nat)
  /\ output_len \in 0 .. SizeMax
  /\ input_offset \in Nat /\ chunk_size \in Nat /\ high \in Nat

\* Before the decoder runs it has read and written nothing; while it runs there
\* is room for the terminating zero, and a chunk it is about to copy is there
\* and fits.
DecoderPhases ==
  /\ pc \in {"server", "parse"} =>
       input_offset = 0 /\ high = 0 /\ output = <<>> /\ output_len = 0
  /\ pc \in {"line", "data"} => output_len > 0
  /\ pc = "data" => /\ input_offset + chunk_size <= Len(input)
                    /\ Len(output) + chunk_size < output_len

\* The inductive invariant.
ResponseInv == ResponseTypeOK /\ DecoderPhases /\ DecoderInBounds /\ SizesExact

\* Nothing has arrived yet.
LEMMA ResponseInitInv == ResponseInit => ResponseInv
<1> SUFFICES ASSUME ResponseInit PROVE ResponseInv
  OBVIOUS
<1>1. sent \in ServerResponse /\ SizeMax \in Nat
  BY ResponseAssumption DEF ResponseInit, ServerResponse
<1>2. input = <<>>
  BY DEF ResponseInit, input, Refused
<1>3. input \in Seq(Nat) /\ data \in Seq(Nat) /\ output \in Seq(Nat) /\ Len(input) = 0
  BY <1>2 DEF ResponseInit
<1>4. output_len = 0 /\ input_offset = 0 /\ chunk_size = 0 /\ high = 0 /\ pc = "server"
      /\ output = <<>> /\ sizes = {}
  BY DEF ResponseInit
<1>5. ResponseTypeOK
  BY <1>1, <1>3, <1>4 DEF ResponseTypeOK
<1>6. DecoderPhases
  BY <1>4 DEF DecoderPhases
<1>7. DecoderInBounds /\ SizesExact
  BY <1>3, <1>4 DEF DecoderInBounds, SizesExact
<1> QED
  BY <1>5, <1>6, <1>7 DEF ResponseInv

\* Whatever arrives is a sequence of characters; the decoder has not begun.
LEMMA ArriveInv ==
  ASSUME ResponseInv, NEW how, NEW bytes \in Seq(Nat), Arrive(how, bytes)
  PROVE  ResponseInv'
<1>1. /\ pc = "server" /\ pc' = "parse" /\ data' = bytes
      /\ UNCHANGED <<sent, response, output_len, input_offset, chunk_size, output, sizes, high>>
  BY DEF Arrive, headVars, decoderVars
<1>2. input' = input
  BY <1>1 DEF input
<1>3. ResponseTypeOK'
  BY <1>1, <1>2 DEF ResponseInv, ResponseTypeOK
<1>4. DecoderPhases'
  BY <1>1, <1>2 DEF ResponseInv, DecoderPhases
<1>5. DecoderInBounds' /\ SizesExact'
  BY <1>1, <1>2 DEF ResponseInv, DecoderInBounds, SizesExact
<1> QED
  BY <1>3, <1>4, <1>5 DEF ResponseInv

\* The server and the network.
LEMMA NetworkInv == ResponseInv /\ (Network \/ DamagedBody \/ AnyBody) => ResponseInv'
<1> SUFFICES ASSUME ResponseInv, Network \/ DamagedBody \/ AnyBody PROVE ResponseInv'
  OBVIOUS
<1> DEFINE h == HeadOf(sent)
           b == BodyOf(sent)
<1>1. h \in Seq(Nat) /\ b \in Seq(Nat)
  BY HeadType, BodyType DEF ResponseInv, ResponseTypeOK
<1>2. CASE Network
  <2> DEFINE bytes == h \o b
  <2>1. \/ Arrive("whole", bytes)
        \/ \E n \in 0 .. (Len(bytes) - 1) : Arrive("part", SubSeq(bytes, 1, n))
    BY <1>2 DEF Network
  <2> HIDE DEF h, b
  <2>2. bytes \in Seq(Nat)
    BY <1>1
  <2> HIDE DEF bytes
  <2>3. \A n \in 0 .. (Len(bytes) - 1) : SubSeq(bytes, 1, n) \in Seq(Nat)
    <3> SUFFICES ASSUME NEW n \in 0 .. (Len(bytes) - 1) PROVE SubSeq(bytes, 1, n) \in Seq(Nat)
      OBVIOUS
    <3>1. \A k \in 1 .. n : bytes[k] \in Nat
      BY <2>2
    <3>2. n \in Int
      BY <2>2
    <3> QED
      BY <3>1, <3>2, SubSeqProperties
  <2> QED
    BY <2>1, <2>2, <2>3, ArriveInv
<1>3. CASE DamagedBody
  <2>1. PICK k \in 1 .. Len(b), v \in DamageTo : Arrive("other", h \o [b EXCEPT ![k] = v])
    BY <1>3 DEF DamagedBody
  <2> DEFINE c == [b EXCEPT ![k] = v]
  <2>2. v \in Nat
    BY ResponseAssumption
  <2> HIDE DEF h, b
  <2>3. c \in Seq(Nat)
    BY <1>1, <2>2
  <2> HIDE DEF c
  <2>4. h \o c \in Seq(Nat)
    BY <1>1, <2>3
  <2> QED
    BY <2>1, <2>4, ArriveInv DEF c
<1>4. CASE AnyBody
  <2>1. PICK bytes \in AnyInput : Arrive("other", h \o bytes)
    BY <1>4 DEF AnyBody
  <2>2. bytes \in Seq(Nat)
    BY ResponseAssumption
  <2> HIDE DEF h
  <2>3. h \o bytes \in Seq(Nat)
    BY <1>1, <2>2
  <2> QED
    BY <2>1, <2>3, ArriveInv
<1> QED
  BY <1>2, <1>3, <1>4

\* What the decoder's steps need to know of the state before them.
LEMMA DecoderFacts ==
  ASSUME ResponseInv
  PROVE  /\ input \in Seq(Nat) /\ Len(input) \in Nat /\ output \in Seq(Nat) /\ Len(output) \in Nat
         /\ output_len \in Nat /\ output_len <= SizeMax /\ SizeMax \in Nat
         /\ input_offset \in Nat /\ chunk_size \in Nat /\ high \in Nat
         /\ input_offset <= Len(input) /\ high <= Len(input)
         /\ output_len > 0 => Len(output) < output_len
<1>1. SizeMax \in Nat
  BY ResponseAssumption
<1>2. input \in Seq(Nat) /\ output \in Seq(Nat)
  BY DEF ResponseInv, ResponseTypeOK
<1>3. Len(input) \in Nat /\ Len(output) \in Nat
  BY <1>2
<1> QED
  BY <1>1, <1>2, <1>3 DEF ResponseInv, ResponseTypeOK, DecoderInBounds

\* Parsing the head: the decoder, if it starts, has everything before it.
LEMMA ParseInv == ResponseInv /\ (ParseFails \/ PrintPlain \/ StartDecoding) => ResponseInv'
<1> SUFFICES ASSUME ResponseInv, ParseFails \/ PrintPlain \/ StartDecoding PROVE ResponseInv'
  OBVIOUS
<1>1. /\ pc = "parse" /\ response' = http_parse_response(data)
      /\ pc' \in {"failed", "printed", "no_memory", "returned", "line"}
      /\ UNCHANGED <<sent, data, input_offset, chunk_size, output, sizes, high>>
  BY DEF ParseFails, PrintPlain, StartDecoding, netVars, decoderVars
<1>2. data \in Seq(Nat) /\ input_offset = 0 /\ high = 0 /\ output = <<>> /\ output_len = 0
  BY <1>1 DEF ResponseInv, ResponseTypeOK, DecoderPhases
<1>3. input' \in Seq(Nat)
  BY <1>1, <1>2, ParsedBodyType DEF input
<1>4. Len(input') \in Nat
  BY <1>3
<1>5. output_len' \in 0 .. SizeMax /\ (pc' = "line" => output_len' > 0)
  <2>1. output_len \in 0 .. SizeMax
    BY DEF ResponseInv, ResponseTypeOK
  <2>2. CASE ParseFails \/ PrintPlain
    BY <2>1, <2>2 DEF ParseFails, PrintPlain
  <2>3. CASE StartDecoding
    <3>1. \/ pc' = "no_memory" /\ UNCHANGED output_len
          \/ /\ output_len' \in 0 .. SizeMax
             /\ pc' = IF output_len' = 0 THEN "returned" ELSE "line"
      BY <2>3 DEF StartDecoding
    <3> QED
      BY <2>1, <3>1, DecoderFacts
  <2> QED
    BY <2>2, <2>3
<1>6. ResponseTypeOK'
  BY <1>1, <1>3, <1>5 DEF ResponseInv, ResponseTypeOK
<1>7. DecoderPhases'
  BY <1>1, <1>5 DEF DecoderPhases
<1>8. DecoderInBounds'
  <2>1. input_offset' = 0 /\ high' = 0 /\ output' = <<>>
    BY <1>1, <1>2
  <2>2. Len(output') = 0
    BY <2>1
  <2> QED
    BY <1>4, <1>5, <2>1, <2>2, DecoderFacts DEF DecoderInBounds
<1>9. SizesExact'
  BY <1>1 DEF ResponseInv, SizesExact
<1> QED
  BY <1>6, <1>7, <1>8, <1>9 DEF ResponseInv

\* The remainder of a natural number is no larger than the number.
LEMMA MinusBound ==
  ASSUME NEW a \in Nat, NEW b \in Nat, b <= a, SizeMax \in Nat
  PROVE  /\ Minus(a, b) \in Nat /\ Minus(a, b) <= a - b
         /\ a <= SizeMax => Minus(a, b) = a - b
<1> DEFINE x == a - b
           m == SizeMax + 1
<1>1. x \in Nat /\ m \in Nat /\ m > 0 /\ Minus(a, b) = x % m
  BY DEF Minus
<1> HIDE DEF x, m
<1>2. x % m \in Nat /\ x % m <= x /\ (x < m => x % m = x)
  BY <1>1
<1> QED
  BY <1>1, <1>2 DEF x, m

\* A step of the decoder.
LEMMA DecoderStepInv ==
  ASSUME ResponseInv, UNCHANGED <<sent, data, response, output_len>>,
         pc' \in {"line", "data", "returned"}, output_len > 0,
         input_offset' \in Nat, chunk_size' \in Nat, high' \in Nat, output' \in Seq(Nat),
         input_offset' <= Len(input), high' <= Len(input), Len(output') < output_len,
         pc' = "data" => /\ input_offset' + chunk_size' <= Len(input)
                         /\ Len(output') + chunk_size' < output_len,
         SizesExact'
  PROVE  ResponseInv'
<1>1. input' = input
  BY DEF input
<1>2. ResponseTypeOK'
  BY <1>1 DEF ResponseInv, ResponseTypeOK
<1>3. DecoderPhases'
  BY <1>1 DEF DecoderPhases
<1>4. DecoderInBounds'
  BY <1>1 DEF DecoderInBounds
<1> QED
  BY <1>2, <1>3, <1>4 DEF ResponseInv

\* A line is read to its end, which is in the body, and a chunk is begun only if
\* it is there and fits with the terminating zero.
LEMMA DecodeLineInv == ResponseInv /\ DecodeLine => ResponseInv'
<1> SUFFICES ASSUME ResponseInv, DecodeLine PROVE ResponseInv'
  OBVIOUS
<1>1. /\ pc = "line" /\ output_len > 0
      /\ UNCHANGED <<sent, data, response, output_len>>
  BY DEF DecodeLine, netVars, headVars, ResponseInv, DecoderPhases
<1>2. CASE LineEnds(input, input_offset) = {}
  <2>1. /\ pc' = "returned" /\ high' = Len(input)
        /\ UNCHANGED <<input_offset, chunk_size, output, sizes>>
    BY <1>2 DEF DecodeLine, Return
  <2>2. SizesExact'
    BY <2>1 DEF ResponseInv, SizesExact
  <2> QED
    BY <1>1, <2>1, <2>2, DecoderFacts, DecoderStepInv
<1>3. CASE LineEnds(input, input_offset) # {}
  <2> DEFINE e    == Smallest(LineEnds(input, input_offset))
             line == SubSeq(input, input_offset + 1, e)
             size == parse_chunk_size(line)
  <2>1. e \in Nat /\ input_offset <= e /\ e + 2 <= Len(input)
    <3>1. LineEnds(input, input_offset) \subseteq input_offset .. (Len(input) - 2)
      BY DEF LineEnds
    <3>2. LineEnds(input, input_offset) \subseteq Nat
      BY <3>1, DecoderFacts
    <3>3. e \in input_offset .. (Len(input) - 2)
      BY <1>3, <3>1, <3>2, SmallestType
    <3> HIDE DEF e
    <3> QED
      BY <3>3, DecoderFacts
  <2>2. /\ input_offset' = IF size < 0 THEN input_offset ELSE e + 2
        /\ high' = e + 2
        /\ sizes' = IF size < 0 THEN sizes ELSE sizes \cup {<<line, size>>}
        /\ CASE size < 0 -> Return(0) /\ UNCHANGED <<chunk_size, output>>
             [] size = 0 -> LastChunk /\ UNCHANGED chunk_size
             [] size > 0 /\ ChunkArrived(size, e + 2) /\ ChunkFits(size) ->
                  /\ pc' = "data" /\ chunk_size' = size
                  /\ UNCHANGED <<output, decoded_len>>
             [] OTHER -> Return(0) /\ UNCHANGED <<chunk_size, output>>
    BY <1>3 DEF DecodeLine
  <2> HIDE DEF e
  <2>3. Len(line) \in Nat
    <3>1. \A k \in (input_offset + 1) .. e : input[k] \in Nat
      <4>1. input_offset \in Nat /\ Len(input) \in Nat
        BY DecoderFacts
      <4>2. (input_offset + 1) .. e \subseteq 1 .. Len(input)
        BY <2>1, <4>1
      <4>3. \A k \in 1 .. Len(input) : input[k] \in Nat
        BY DecoderFacts
      <4> QED
        BY <4>2, <4>3
    <3>2. input_offset + 1 \in Int /\ e \in Int
      BY <2>1, DecoderFacts
    <3>3. line \in Seq(Nat)
      BY <3>1, <3>2, SubSeqProperties
    <3> HIDE DEF line
    <3> QED
      BY <3>3
  <2> HIDE DEF line
  <2>4. size \in Int /\ (size >= 0 => size = WrittenSize(line))
    BY <2>3, SizeIsWritten
  <2> HIDE DEF size
  <2>5. SizesExact'
    <3>1. ASSUME NEW s \in sizes' PROVE s[2] = WrittenSize(s[1])
      <4>1. CASE s \in sizes
        BY <4>1 DEF ResponseInv, SizesExact
      <4>2. CASE s \notin sizes
        <5>1. s = <<line, size>> /\ ~(size < 0)
          BY <2>2, <4>2
        <5> QED
          BY <2>4, <5>1
      <4> QED
        BY <4>1, <4>2
    <3> QED
      BY <3>1 DEF SizesExact
  <2>6. /\ input_offset' \in Nat /\ input_offset' <= Len(input)
        /\ high' \in Nat /\ high' <= Len(input)
    BY <2>1, <2>2, DecoderFacts
  <2>7. \/ pc' = "returned" /\ UNCHANGED <<chunk_size, output>>
        \/ /\ pc' = "data" /\ chunk_size' = size /\ output' = output
           /\ size > 0 /\ ChunkArrived(size, e + 2) /\ ChunkFits(size)
    BY <2>2, <2>4 DEF Return, LastChunk
  <2>8. CASE pc' = "returned" /\ UNCHANGED <<chunk_size, output>>
    BY <1>1, <2>5, <2>6, <2>8, DecoderFacts, DecoderStepInv
  <2>9. CASE /\ pc' = "data" /\ chunk_size' = size /\ output' = output
             /\ size > 0 /\ ChunkArrived(size, e + 2) /\ ChunkFits(size)
    <3>1. size <= Len(input) - (e + 2)
      <4>1. Minus(Len(input), e + 2) \in Nat /\ Minus(Len(input), e + 2) <= Len(input) - (e + 2)
        BY <2>1, DecoderFacts, MinusBound, SMTT(30)
      <4>2. size <= Minus(Len(input), e + 2)
        BY <2>9 DEF ChunkArrived
      <4> QED
        BY <2>1, <2>4, <4>1, <4>2, DecoderFacts
    <3>2. size < output_len - Len(output)
      <4>1. Minus(output_len, Len(output)) = output_len - Len(output)
        BY <1>1, DecoderFacts, MinusBound
      <4>2. output_len - Len(output) \in Nat /\ 1 <= output_len - Len(output)
            /\ output_len - Len(output) <= SizeMax
        BY <1>1, DecoderFacts
      <4>3. Minus(Minus(output_len, Len(output)), 1) = output_len - Len(output) - 1
        BY <4>1, <4>2, DecoderFacts, MinusBound
      <4>4. size <= output_len - Len(output) - 1
        BY <2>9, <4>3 DEF ChunkFits
      <4> QED
        BY <2>4, <4>2, <4>4, DecoderFacts
    <3>3. input_offset' = e + 2
      BY <2>2, <2>4, <2>9
    <3>4. chunk_size' \in Nat /\ input_offset' + chunk_size' <= Len(input)
          /\ Len(output') + chunk_size' < output_len
      BY <2>1, <2>4, <2>9, <3>1, <3>2, <3>3, DecoderFacts
    <3> QED
      BY <1>1, <2>5, <2>6, <2>9, <3>4, DecoderFacts, DecoderStepInv
  <2> QED
    BY <2>7, <2>8, <2>9
<1> QED
  BY <1>2, <1>3

\* The chunk that is copied fits, and only a CRLF that is there is looked at.
LEMMA DecodeDataInv == ResponseInv /\ DecodeData => ResponseInv'
<1> SUFFICES ASSUME ResponseInv, DecodeData PROVE ResponseInv'
  OBVIOUS
<1> DEFINE o     == input_offset + chunk_size
           bytes == [k \in 1 .. chunk_size |-> ByteAt(input_offset + k - 1)]
<1>1. /\ pc = "data" /\ output_len > 0 /\ o <= Len(input) /\ Len(output) + chunk_size < output_len
      /\ UNCHANGED <<sent, data, response, output_len, chunk_size, sizes>>
      /\ output' = output \o bytes
  BY DEF DecodeData, netVars, headVars, ResponseInv, DecoderPhases
<1>2. o \in Nat
  BY DecoderFacts
<1>3. bytes \in Seq(Nat) /\ Len(bytes) = chunk_size
  <2>1. ASSUME NEW k \in 1 .. chunk_size PROVE ByteAt(input_offset + k - 1) \in Nat
    <3>1. input_offset + k - 1 \in Nat /\ (input_offset + k - 1) + 1 \in 1 .. Len(input)
      <4>1. input_offset \in Nat /\ chunk_size \in Nat /\ Len(input) \in Nat
        BY DecoderFacts
      <4>2. input_offset + chunk_size <= Len(input)
        BY <1>1
      <4> QED
        BY <4>1, <4>2
    <3>2. input[(input_offset + k - 1) + 1] \in Nat
      <4>1. \A p \in 1 .. Len(input) : input[p] \in Nat
        BY DecoderFacts
      <4> QED
        BY <3>1, <4>1
    <3> QED
      BY <3>2 DEF ByteAt
  <2>2. bytes \in [1 .. chunk_size -> Nat]
    BY <2>1
  <2> HIDE DEF bytes
  <2> QED
    BY <2>2, DecoderFacts
<1>4. /\ pc' \in {"line", "returned"}
      /\ \/ /\ o + 2 <= Len(input) /\ input_offset' = o + 2 /\ high' = o + 2
         \/ /\ input_offset' = o
            /\ high' = o + (IF o + 2 <= Len(input) THEN 2 ELSE 0)
  BY DEF DecodeData, Closed, Return
<1> HIDE DEF o, bytes
<1>5. output' \in Seq(Nat) /\ Len(output') = Len(output) + chunk_size
  <2>1. \A a, b \in Seq(Nat) : a \o b \in Seq(Nat) /\ Len(a \o b) = Len(a) + Len(b)
    OBVIOUS
  <2>2. output \o bytes \in Seq(Nat) /\ Len(output \o bytes) = Len(output) + Len(bytes)
    BY <1>3, <2>1, DecoderFacts, Zenon
  <2> QED
    BY <1>1, <1>3, <2>2, Zenon
<1>6. Len(output') < output_len
  BY <1>1, <1>5
<1>7. /\ input_offset' \in Nat /\ input_offset' <= Len(input)
      /\ high' \in Nat /\ high' <= Len(input)
  <2>1. Len(input) \in Nat /\ o <= Len(input)
    BY <1>1, DecoderFacts
  <2> QED
    BY <1>2, <1>4, <2>1
<1>8. SizesExact'
  BY <1>1 DEF ResponseInv, SizesExact
<1> QED
  BY <1>1, <1>4, <1>5, <1>6, <1>7, <1>8, DecoderFacts, DecoderStepInv

\* Printing changes nothing of this.
LEMMA PrintInv == ResponseInv /\ PrintDecoded => ResponseInv'
<1> SUFFICES ASSUME ResponseInv, PrintDecoded PROVE ResponseInv'
  OBVIOUS
<1>1. /\ pc' \in {"failed", "printed"}
      /\ UNCHANGED <<sent, data, response, output_len, input_offset, chunk_size, output, sizes, high>>
  BY DEF PrintDecoded, netVars, headVars, decoderVars
<1>2. input' = input
  BY <1>1 DEF input
<1> QED
  BY <1>1, <1>2 DEF ResponseInv, ResponseTypeOK, DecoderPhases, DecoderInBounds, SizesExact

\* Every step keeps the invariant.
LEMMA ResponseStep == ResponseInv /\ [ResponseNext]_rvars => ResponseInv'
<1>1. ASSUME ResponseInv, UNCHANGED rvars PROVE ResponseInv'
  <2>1. UNCHANGED <<pc, sent, data, response, output_len, input_offset, chunk_size, output, sizes, high>>
    BY <1>1 DEF rvars, netVars, headVars, decoderVars
  <2>2. input' = input
    BY <2>1 DEF input
  <2> QED
    BY <1>1, <2>1, <2>2 DEF ResponseInv, ResponseTypeOK, DecoderPhases, DecoderInBounds, SizesExact
<1> QED
  BY <1>1, NetworkInv, ParseInv, DecodeLineInv, DecodeDataInv, PrintInv
  DEF ResponseNext, print_http_response

\* The decoder's invariant, for every response, damage, width of size_t and
\* size of the output.
THEOREM ResponseInvariant == ResponseSpec => []ResponseInv
BY ResponseInitInv, ResponseStep, PTL DEF ResponseSpec

\* http_decode_chunked_body neither reads outside the body nor writes outside
\* the output, the terminating zero included.
THEOREM DecoderInBoundsHolds == ResponseSpec => []DecoderInBounds
<1>1. ResponseInv => DecoderInBounds
  BY DEF ResponseInv
<1> QED
  BY <1>1, ResponseInvariant, PTL

\* parse_chunk_size accepts a size only if it is the one written in the line,
\* however many digits that has: the check against SIZE_MAX lets nothing wrap.
THEOREM SizesExactHolds == ResponseSpec => []SizesExact
<1>1. ResponseInv => SizesExact
  BY DEF ResponseInv
<1> QED
  BY <1>1, ResponseInvariant, PTL

(***************************************************************************)
(* The head.                                                               *)
(***************************************************************************)
\* A head whose end has not arrived is refused.
LEMMA CutHeadRead ==
  ASSUME NEW d, HeaderLen(d) = 0
  PROVE  http_parse_response(d).rc # 0
<1> DEFINE status == strtol(d, Smallest(Spaces(d)) + 1)
           parsed == [rc |-> 0, status_code |-> status, header_len |-> HeaderLen(d),
                      body |-> SubSeq(d, HeaderLen(d) + 1, Len(d))]
           short  == \/ WidthOf(SubSeq(d, 1, Smallest(LineEnds(d, 0)))) < 12 \/ d[1] # Http
                     \/ Spaces(d) = {} \/ Smallest(Spaces(d)) >= Smallest(LineEnds(d, 0))
           wrong  == status < 100 \/ status > 999
<1>1. http_parse_response(d) =
        IF d = <<>> THEN Refused(-1)
        ELSE IF LineEnds(d, 0) = {} THEN Refused(-2)
        ELSE IF short THEN Refused(-2)
        ELSE IF wrong THEN Refused(-2)
        ELSE IF HeaderLen(d) = 0 THEN Refused(-3)
        ELSE parsed
  BY DEF http_parse_response
<1> HIDE DEF short, wrong, parsed
<1>2. http_parse_response(d) \in {Refused(-1), Refused(-2), Refused(-3)}
  BY <1>1
<1>3. Refused(-1).rc # 0 /\ Refused(-2).rc # 0 /\ Refused(-3).rc # 0
  BY DEF Refused
<1> QED
  BY <1>2, <1>3

\* What arrives begins with the head; unless something is wrong with the body,
\* it is the response or a part of it.
HeadArrives ==
  /\ sent \in Responses
  /\ pc # "server" =>
       /\ BeginsLike(data, HeadOf(sent))
       /\ arrived # "other" =>
            /\ BeginsLike(data, HeadOf(sent) \o BodyOf(sent))
            /\ Len(data) <= Len(HeadOf(sent) \o BodyOf(sent))
            /\ arrived = "whole" => Len(data) = Len(HeadOf(sent) \o BodyOf(sent))

\* The client's view of the head.
HeadInv == HeadArrives /\ HeadUnderstood /\ CutHeadRefused

\* Nothing has arrived yet.
LEMMA HeadInitInv == ResponseInit => HeadInv
BY DEF ResponseInit, HeadInv, HeadArrives, HeadUnderstood, CutHeadRefused, Parsed

\* What is sent is a sequence of characters.
LEMMA SentType ==
  ASSUME sent \in Responses
  PROVE  /\ HeadOf(sent) \in Seq(Nat) /\ BodyOf(sent) \in Seq(Nat)
         /\ Len(HeadOf(sent)) \in Nat /\ Len(BodyOf(sent)) \in Nat
<1>1. HeadOf(sent) \in Seq(Nat) /\ BodyOf(sent) \in Seq(Nat)
  BY SentPlain, HeadType, BodyType
<1> QED
  BY <1>1

\* The server and the network: a head comes through whole or is cut.
LEMMA NetworkHeadInv == HeadInv /\ (Network \/ DamagedBody \/ AnyBody) => HeadInv'
<1> SUFFICES ASSUME HeadInv, Network \/ DamagedBody \/ AnyBody PROVE HeadInv'
  OBVIOUS
<1> DEFINE h == HeadOf(sent)
           b == BodyOf(sent)
           w == h \o b
<1>1. sent \in Responses
  BY DEF HeadInv, HeadArrives
<1>2. h \in Seq(Nat) /\ b \in Seq(Nat)
  BY <1>1, SentType
<1>3. w \in Seq(Nat) /\ Len(w) \in Nat /\ BeginsLike(w, h) /\ BeginsLike(w, w)
  <2> HIDE DEF h, b
  <2>1. w \in Seq(Nat) /\ BeginsLike(w, h)
    BY <1>2, BeginsConcat
  <2> HIDE DEF w
  <2> QED
    BY <2>1 DEF BeginsLike
<1>4. ASSUME NEW how, NEW bytes, Arrive(how, bytes), BeginsLike(bytes, h),
             how # "other" => /\ BeginsLike(bytes, w) /\ Len(bytes) <= Len(w)
                              /\ how = "whole" => Len(bytes) = Len(w)
      PROVE  HeadInv'
  <2>1. pc' = "parse" /\ sent' = sent /\ arrived' = how /\ data' = bytes
    BY <1>4 DEF Arrive
  <2>2. HeadArrives'
    BY <1>1, <1>4, <2>1, Zenon DEF HeadArrives
  <2>3. ~Parsed'
    BY <2>1 DEF Parsed
  <2> QED
    BY <2>2, <2>3 DEF HeadInv, HeadUnderstood, CutHeadRefused
<1>5. CASE Network
  <2>1. CASE Arrive("whole", w)
    <3>1. Len(w) <= Len(w)
      BY <1>3
    <3> QED
      BY <1>3, <1>4, <2>1, <3>1
  <2>2. CASE \E n \in 0 .. (Len(w) - 1) : Arrive("part", SubSeq(w, 1, n))
    <3>1. PICK n \in 0 .. (Len(w) - 1) : Arrive("part", SubSeq(w, 1, n))
      BY <2>2
    <3>2. n \in 0 .. Len(w)
      BY <1>3
    <3> DEFINE p == SubSeq(w, 1, n)
    <3>3. Len(p) = n /\ BeginsLike(p, w) /\ BeginsLike(p, h)
      BY <1>2, <3>2, BeginsPrefix
    <3>4. Len(p) <= Len(w)
      BY <1>3, <3>2, <3>3
    <3> QED
      BY <1>4, <3>1, <3>3, <3>4
  <2> QED
    BY <1>5, <2>1, <2>2 DEF Network
<1>6. CASE DamagedBody
  <2>1. PICK k \in 1 .. Len(b), v \in DamageTo : Arrive("other", h \o [b EXCEPT ![k] = v])
    BY <1>6 DEF DamagedBody
  <2> DEFINE c == [b EXCEPT ![k] = v]
  <2>2. v \in Nat
    BY ResponseAssumption
  <2>3. c \in Seq(Nat)
    <3> HIDE DEF h, b
    <3> QED
      BY <1>2, <2>2
  <2> HIDE DEF c
  <2>4. BeginsLike(h \o c, h)
    BY <1>2, <2>3, BeginsConcat
  <2> QED
    BY <1>4, <2>1, <2>4 DEF c
<1>7. CASE AnyBody
  <2>1. PICK bytes \in AnyInput : Arrive("other", h \o bytes)
    BY <1>7 DEF AnyBody
  <2>2. bytes \in Seq(Nat)
    BY ResponseAssumption
  <2>3. BeginsLike(h \o bytes, h)
    BY <1>2, <2>2, BeginsConcat
  <2> QED
    BY <1>4, <2>1, <2>3
<1> QED
  BY <1>5, <1>6, <1>7

\* What the client makes of the head, if it is there.
LEMMA ParseHead ==
  ASSUME ResponseInv, HeadInv, pc # "server", WellFormed(sent), Len(data) >= Len(HeadOf(sent))
  PROVE  LET p == http_parse_response(data)
         IN  /\ p.rc = 0 /\ HeadOf(sent) \o p.body = data /\ p.status_code = StatusOf(sent)
             /\ http_response_is_chunked(data, p.header_len) = IsChunked(sent)
<1> DEFINE p == http_parse_response(data)
           h == HeadOf(sent)
           t == SubSeq(data, Len(h) + 1, Len(data))
<1>1. sent \in Responses /\ data \in Seq(Nat) /\ BeginsLike(data, h)
  BY DEF HeadInv, HeadArrives, ResponseInv, ResponseTypeOK
<1>2. sent \in ServerResponse /\ PlainHead(sent) /\ HeadArrived(data, sent) /\ h \in Seq(Nat)
  BY <1>1, SentPlain, SentType DEF HeadArrived
<1>3. p = [rc |-> 0, status_code |-> StatusOf(sent), header_len |-> Len(h), body |-> t]
  BY <1>1, <1>2, HeadRead
<1>4. http_response_is_chunked(data, Len(h)) = IsChunked(sent)
  BY <1>1, <1>2, ChunkedRead
<1>5. h \o t = data
  BY <1>1, <1>2, TailOf
<1> HIDE DEF p, h, t
<1>6. p.rc = 0 /\ p.status_code = StatusOf(sent) /\ p.header_len = Len(h) /\ p.body = t
  BY <1>3
<1> QED
  BY <1>4, <1>5, <1>6, Zenon DEF p, h

\* Parsing the head.
LEMMA ParseHeadInv ==
  ResponseInv /\ HeadInv /\ (ParseFails \/ PrintPlain \/ StartDecoding) => HeadInv'
<1> SUFFICES ASSUME ResponseInv, HeadInv, ParseFails \/ PrintPlain \/ StartDecoding PROVE HeadInv'
  OBVIOUS
<1> DEFINE p == http_parse_response(data)
           h == HeadOf(sent)
<1>1. /\ pc = "parse" /\ pc' # "server" /\ UNCHANGED <<sent, arrived, data>> /\ response' = p
      /\ pc' = "failed" \/ p.rc = 0
  BY DEF ParseFails, PrintPlain, StartDecoding, netVars
<1>2. HeadArrives'
  BY <1>1, Zenon DEF HeadInv, HeadArrives
<1>3. sent \in Responses /\ data \in Seq(Nat) /\ BeginsLike(data, h)
  BY <1>1 DEF HeadInv, HeadArrives, ResponseInv, ResponseTypeOK
<1>4. CutHeadRefused'
  <2> SUFFICES ASSUME Len(data) < Len(h) PROVE pc' = "failed"
    BY <1>1 DEF CutHeadRefused
  <2>1. HeaderLen(data) = 0
    BY <1>3, SentPlain, CutHeadLen
  <2> QED
    BY <1>1, <2>1, CutHeadRead
<1>5. HeadUnderstood'
  <2> SUFFICES ASSUME WellFormed(sent), Len(data) >= Len(h)
               PROVE  /\ p.rc = 0 /\ h \o p.body = data
                      /\ p.status_code = StatusOf(sent) /\ chunked' = IsChunked(sent)
    BY <1>1 DEF HeadUnderstood
  <2>1. /\ p.rc = 0 /\ h \o p.body = data /\ p.status_code = StatusOf(sent)
        /\ http_response_is_chunked(data, p.header_len) = IsChunked(sent)
    BY <1>1, ParseHead
  <2>2. chunked' = http_response_is_chunked(data, p.header_len)
    BY <1>1, <2>1 DEF ParseFails, PrintPlain, StartDecoding
  <2> QED
    BY <2>1, <2>2
<1> QED
  BY <1>2, <1>4, <1>5 DEF HeadInv

\* No later step changes what arrived or what was made of its head.
LEMMA KeepsHead ==
  ASSUME HeadInv, pc \in {"line", "data", "returned"}, pc' # "server", pc' # "parse",
         UNCHANGED <<netVars, headVars>>
  PROVE  HeadInv'
<1>1. UNCHANGED <<sent, arrived, data, response, chunked>>
  BY DEF netVars, headVars
<1>2. Parsed /\ pc # "failed" /\ pc # "server"
  BY DEF Parsed
<1>3. HeadArrives'
  BY <1>1, <1>2, Zenon DEF HeadInv, HeadArrives
<1>4. HeadUnderstood'
  BY <1>1, <1>2, Zenon DEF HeadInv, HeadUnderstood
<1>5. CutHeadRefused'
  BY <1>1, <1>2, Zenon DEF HeadInv, CutHeadRefused
<1> QED
  BY <1>3, <1>4, <1>5 DEF HeadInv

\* Every step keeps it.
LEMMA HeadStep == ResponseInv /\ HeadInv /\ [ResponseNext]_rvars => HeadInv'
<1> SUFFICES ASSUME ResponseInv, HeadInv, [ResponseNext]_rvars PROVE HeadInv'
  OBVIOUS
<1>1. CASE UNCHANGED rvars
  <2>1. UNCHANGED <<pc, sent, arrived, data, response, chunked>>
    BY <1>1 DEF rvars, netVars, headVars
  <2>2. Parsed' = Parsed
    BY <2>1 DEF Parsed
  <2> QED
    BY <2>1, <2>2, Zenon DEF HeadInv, HeadArrives, HeadUnderstood, CutHeadRefused
<1>2. CASE DecodeLine \/ DecodeData \/ PrintDecoded
  <2>1. /\ pc \in {"line", "data", "returned"} /\ pc' # "server" /\ pc' # "parse"
        /\ UNCHANGED <<netVars, headVars>>
    <3>1. CASE DecodeLine
      <4>1. pc = "line" /\ UNCHANGED <<netVars, headVars>>
        BY <3>1 DEF DecodeLine
      <4>2. pc' \in {"data", "returned"}
        BY <3>1 DEF DecodeLine, Return, LastChunk
      <4> QED
        BY <4>1, <4>2
    <3>2. CASE DecodeData
      BY <3>2 DEF DecodeData, Return
    <3>3. CASE PrintDecoded
      BY <3>3 DEF PrintDecoded
    <3> QED
      BY <1>2, <3>1, <3>2, <3>3
  <2> QED
    BY <2>1, KeepsHead
<1> QED
  BY <1>1, <1>2, NetworkHeadInv, ParseHeadInv DEF ResponseNext, print_http_response

(***************************************************************************)
(* The chunks.                                                             *)
(***************************************************************************)
\* A body that arrived whole and has room, and one whose end is known to miss.
WholeWithRoom == Chunked("whole") /\ output_len > Len(Data(sent.body))
Followed      == WholeWithRoom \/ CutBeforeLastChunk

\* The decoder is before a size line, and has decoded the chunks before it.
AtLine(b, o, out) ==
  \E c \in 0 .. ChunkCount(b) : o = ChunkStart(b, c) /\ out = DataTo(b, c)

\* The decoder is before the data of a chunk, of which it knows the size.
AtData(b, o, n, out) ==
  \E c \in 0 .. (ChunkCount(b) - 1) :
    o = ChunkStart(b, c) + LineLen(b, c) + 2 /\ n = SizeAt(b, c) /\ out = DataTo(b, c)

\* The decoder goes from chunk to chunk, and never takes data for a size line.
Walk ==
  /\ pc \notin {"returned", "printed", "failed"} => decoded_len = 0
  /\ pc \in {"line", "data", "returned"} => chunked
  /\ Followed /\ pc = "line" => AtLine(sent.body, input_offset, output)
  /\ Followed /\ pc = "data" => AtData(sent.body, input_offset, chunk_size, output)

\* What the decoder makes of the chunks.
DecodeInv == Walk /\ WholeOrNothing

\* What returning means for a body that is followed.
Verdict(n, out) ==
  /\ WholeWithRoom => n = Len(Data(sent.body)) /\ out = Data(sent.body)
  /\ CutBeforeLastChunk => n = 0

\* Nothing has arrived yet.
LEMMA DecodeInitInv == ResponseInit => DecodeInv
<1> SUFFICES ASSUME ResponseInit PROVE DecodeInv
  OBVIOUS
<1>1. pc = "server" /\ decoded_len = 0
  BY DEF ResponseInit
<1> QED
  BY <1>1 DEF DecodeInv, Walk, WholeOrNothing

\* What the decoder is given begins like the chunks the server sent.
LEMMA ChunksFollowed ==
  ASSUME ResponseInv, HeadInv, pc \in {"line", "data", "returned"},
         Chunked("whole") \/ CutBeforeLastChunk
  PROVE  /\ sent.body \in Body /\ PlainBody(sent.body) /\ SizeMax \in Nat
         /\ input \in Seq(Nat) /\ Len(input) \in Nat /\ Len(input) <= SizeMax
         /\ BeginsLike(input, Chunks(sent.body))
         /\ Len(Chunks(sent.body)) \in Nat /\ Len(Chunks(sent.body)) <= SizeMax
         /\ Chunked("whole") => Len(input) >= Len(Chunks(sent.body)) + 2
         /\ CutBeforeLastChunk => Len(input) < Len(Chunks(sent.body))
<1> DEFINE h == HeadOf(sent)
           B == BodyOf(sent)
           C == Chunks(sent.body)
<1>1. /\ sent \in Responses /\ data \in Seq(Nat) /\ input \in Seq(Nat)
      /\ pc # "server" /\ pc # "failed" /\ Parsed
  BY DEF HeadInv, HeadArrives, ResponseInv, ResponseTypeOK, Parsed
<1>2. /\ WellFormed(sent) /\ IsChunked(sent) /\ arrived # "other"
      /\ Chunked("whole") => arrived = "whole"
      /\ CutBeforeLastChunk => Len(data) < Len(h) + Len(C)
  BY DEF Chunked, CutBeforeLastChunk
<1>3. /\ BeginsLike(data, h \o B) /\ Len(data) <= Len(h \o B)
      /\ arrived = "whole" => Len(data) = Len(h \o B)
  BY <1>1, <1>2 DEF HeadInv, HeadArrives
<1>4. ~(Len(data) < Len(h))
  BY <1>1 DEF HeadInv, CutHeadRefused
<1>5. Len(h) \in Nat /\ Len(data) \in Nat
  BY <1>1, SentType
<1>6. Len(data) >= Len(h)
  <2> HIDE DEF h
  <2> QED
    BY <1>4, <1>5
<1>7. h \o input = data
  BY <1>1, <1>2, <1>6 DEF HeadInv, HeadUnderstood, input
<1>8. BeginsLike(h \o input, h \o B) /\ Len(h \o input) <= Len(h \o B)
  BY <1>3, <1>7
<1>9. /\ BeginsLike(input, C) /\ Len(input) <= SizeMax /\ Len(C) <= SizeMax
      /\ Len(input) \in Nat /\ Len(C) \in Nat
      /\ Len(h \o input) = Len(h \o B) => Len(input) >= Len(C) + 2
      /\ Len(h \o input) < Len(h) + Len(C) => Len(input) < Len(C)
  BY <1>1, <1>2, <1>8, ChunksArrived
<1>10. sent.body \in Body /\ PlainBody(sent.body) /\ SizeMax \in Nat
  BY <1>1, SentPlain
<1> QED
  BY <1>1, <1>2, <1>3, <1>7, <1>9, <1>10, Zenon

\* A step of the decoder that follows the chunks.
LEMMA WalkStep ==
  ASSUME Walk, pc \in {"line", "data"}, pc' \in {"line", "data", "returned"},
         UNCHANGED <<netVars, headVars, output_len>>,
         pc' # "returned" => decoded_len' = decoded_len,
         Followed => /\ pc' = "line" => AtLine(sent.body, input_offset', output')
                     /\ pc' = "data" => AtData(sent.body, input_offset', chunk_size', output')
                     /\ pc' = "returned" => Verdict(decoded_len', output')
  PROVE  DecodeInv'
<1>1. UNCHANGED <<sent, arrived, data, response, chunked, output_len>>
  BY DEF netVars, headVars
<1>2. /\ WholeWithRoom' <=> WholeWithRoom
      /\ CutBeforeLastChunk' <=> CutBeforeLastChunk
  BY <1>1, Zenon DEF WholeWithRoom, CutBeforeLastChunk, Chunked
<1>3. Followed' <=> Followed
  BY <1>2 DEF Followed
<1>4. chunked /\ decoded_len = 0
  BY DEF Walk
<1>5. Walk'
  <2>1. chunked' /\ (pc' # "returned" => decoded_len' = 0)
    BY <1>1, <1>4
  <2>2. sent'.body = sent.body
    BY <1>1
  <2>3. Followed' /\ pc' = "line" => AtLine(sent'.body, input_offset', output')
    BY <1>3, <2>2, Zenon
  <2>4. Followed' /\ pc' = "data" => AtData(sent'.body, input_offset', chunk_size', output')
    BY <1>3, <2>2, Zenon
  <2> QED
    BY <2>1, <2>3, <2>4 DEF Walk
<1>6. WholeOrNothing'
  <2> SUFFICES ASSUME pc' = "returned"
               PROVE  /\ WholeWithRoom' => decoded_len' = Len(Data(sent'.body)) /\ output' = Data(sent'.body)
                      /\ CutBeforeLastChunk' => decoded_len' = 0
    BY DEF WholeOrNothing, WholeWithRoom
  <2>1. Followed => Verdict(decoded_len', output')
    BY Zenon
  <2>2. sent'.body = sent.body
    BY <1>1
  <2> QED
    BY <1>2, <2>1, <2>2, Zenon DEF Followed, Verdict
<1> QED
  BY <1>5, <1>6 DEF DecodeInv

\* What the decoder finds at the size line of the chunk behind the first c.
LEMMA LineKnown ==
  ASSUME ResponseInv, HeadInv, pc = "line", Followed, NEW c \in 0 .. ChunkCount(sent.body),
         input_offset = ChunkStart(sent.body, c)
  PROVE  LET e == ChunkStart(sent.body, c) + LineLen(sent.body, c)
             E == LineEnds(input, input_offset)
             n == SizeAt(sent.body, c)
         IN  /\ e \in Nat /\ n \in Nat
             /\ E # {} => /\ Smallest(E) = e /\ e + 2 <= Len(input)
                          /\ parse_chunk_size(SubSeq(input, input_offset + 1, e)) = n
             /\ WholeWithRoom => E # {}
             /\ E # {} /\ c = ChunkCount(sent.body) => ~CutBeforeLastChunk
<1> DEFINE b == sent.body
           e == ChunkStart(b, c) + LineLen(b, c)
           E == LineEnds(input, input_offset)
           n == SizeAt(b, c)
           C == Chunks(b)
<1>1. /\ b \in Body /\ PlainBody(b) /\ SizeMax \in Nat
      /\ input \in Seq(Nat) /\ Len(input) \in Nat
      /\ BeginsLike(input, C) /\ Len(C) \in Nat /\ Len(C) <= SizeMax
      /\ WholeWithRoom => Len(input) >= Len(C) + 2
      /\ CutBeforeLastChunk => Len(input) < Len(C)
  BY ChunksFollowed DEF Followed, WholeWithRoom
<1>2. /\ e \in Nat /\ n \in Nat
      /\ e + 2 <= Len(input) <=> E # {}
      /\ E # {} => Smallest(E) = e /\ parse_chunk_size(SubSeq(input, input_offset + 1, e)) = n
  BY <1>1, LineFound
<1>3. LineWritten(C, b, c) /\ Len(C) = ChunkStart(b, ChunkCount(b)) + LineLen(b, ChunkCount(b)) + 2
  BY <1>1, BodyLayout
<1>4. e + 2 <= Len(C) /\ (c = ChunkCount(b) => e + 2 = Len(C))
  BY <1>3 DEF LineWritten
<1> HIDE DEF e, E, n, C, b
<1>5. WholeWithRoom => E # {}
  BY <1>1, <1>2, <1>4
<1>6. E # {} /\ c = ChunkCount(b) => ~CutBeforeLastChunk
  BY <1>1, <1>2, <1>4
<1> QED
  BY <1>2, <1>5, <1>6, Zenon DEF e, E, n, b

\* A chunk that arrived and has room is taken.
LEMMA ChunkTaken ==
  ASSUME ResponseInv, HeadInv, pc = "line", WholeWithRoom,
         NEW c \in 0 .. (ChunkCount(sent.body) - 1), output = DataTo(sent.body, c)
  PROVE  LET e == ChunkStart(sent.body, c) + LineLen(sent.body, c)
             n == SizeAt(sent.body, c)
         IN  ChunkArrived(n, e + 2) /\ ChunkFits(n)
<1> DEFINE b == sent.body
           e == ChunkStart(b, c) + LineLen(b, c)
           n == SizeAt(b, c)
           C == Chunks(b)
           D == Data(b)
<1>1. /\ b \in Body /\ SizeMax \in Nat /\ Len(input) \in Nat /\ Len(input) <= SizeMax
      /\ Len(C) \in Nat /\ Len(input) >= Len(C) + 2
  BY ChunksFollowed DEF WholeWithRoom
<1>2. ChunkCount(b) \in Nat /\ c \in 0 .. ChunkCount(b) /\ c + 1 \in 0 .. ChunkCount(b)
  <2>1. ChunkCount(b) \in Nat
    BY <1>1, BodyLayout
  <2> QED
    BY <2>1
<1>3. DataWritten(C, b, c)
  BY <1>1, BodyLayout
<1>4. n \in Nat /\ e + 2 \in Nat /\ (e + 2) + n + 2 < Len(C)
  BY <1>3 DEF DataWritten
<1>5. /\ Len(DataTo(b, c + 1)) = Len(output) + n /\ Len(DataTo(b, c + 1)) <= Len(D)
      /\ Len(D) \in Nat
  BY <1>1, <1>2, DataLayout
<1>6. output_len > Len(D)
  BY DEF WholeWithRoom
<1>7. /\ Len(output) \in Nat /\ output_len \in Nat /\ output_len <= SizeMax
  BY DecoderFacts
<1> HIDE DEF e, n, C, D
<1>8. ChunkArrived(n, e + 2)
  <2>1. e + 2 <= Len(input)
    BY <1>1, <1>4
  <2>2. Minus(Len(input), e + 2) = Len(input) - (e + 2)
    BY <1>1, <1>4, <2>1, MinusBound
  <2>3. n <= Len(input) - (e + 2)
    BY <1>1, <1>4
  <2> QED
    BY <2>2, <2>3 DEF ChunkArrived
<1>9. ChunkFits(n)
  <2>1. Len(output) + n < output_len
    BY <1>5, <1>6, <1>7
  <2>2. Len(output) <= output_len
    BY <1>4, <1>7, <2>1
  <2>3. Minus(output_len, Len(output)) = output_len - Len(output)
    BY <1>1, <1>7, <2>2, MinusBound
  <2>4. /\ output_len - Len(output) \in Nat /\ 1 <= output_len - Len(output)
        /\ output_len - Len(output) <= SizeMax
    BY <1>1, <1>4, <1>7, <2>1
  <2>5. Minus(output_len - Len(output), 1) = output_len - Len(output) - 1
    BY <1>1, <2>4, MinusBound
  <2>6. n <= output_len - Len(output) - 1
    BY <1>4, <1>7, <2>1
  <2> QED
    BY <2>3, <2>5, <2>6 DEF ChunkFits
<1> QED
  BY <1>8, <1>9 DEF e, n

\* Only the last chunk has the size 0.
LEMMA LastChunkSize ==
  ASSUME NEW b \in Body, PlainBody(b), NEW c \in 0 .. ChunkCount(b)
  PROVE  SizeAt(b, c) = 0 <=> c = ChunkCount(b)
<1>1. ChunkCount(b) \in Nat /\ b.chunks \in Seq(Seq(Nat)) /\ ChunkCount(b) = Len(b.chunks)
  BY ChunksType DEF ChunkCount
<1>2. CASE c = ChunkCount(b)
  BY <1>1, <1>2 DEF SizeAt
<1>3. CASE c # ChunkCount(b)
  <2>1. c < ChunkCount(b) /\ c + 1 \in 1 .. Len(b.chunks)
    BY <1>1, <1>3
  <2>2. b.chunks[c + 1] # <<>> /\ b.chunks[c + 1] \in Seq(Nat)
    BY <1>1, <2>1 DEF PlainBody
  <2> DEFINE x == b.chunks[c + 1]
  <2> HIDE DEF x
  <2>3. Len(x) # 0
    <3>1. x # <<>> /\ x \in Seq(Nat)
      BY <2>2 DEF x
    <3> QED
      BY <3>1
  <2> QED
    BY <1>3, <2>1, <2>3 DEF SizeAt, x
<1> QED
  BY <1>2, <1>3

\* A size line leads to its chunk's data, or to the end.
LEMMA DecodeLineWalk == ResponseInv /\ HeadInv /\ DecodeInv /\ DecodeLine => DecodeInv'
<1> SUFFICES ASSUME ResponseInv, HeadInv, DecodeInv, DecodeLine PROVE DecodeInv'
  OBVIOUS
<1> DEFINE b == sent.body
           E == LineEnds(input, input_offset)
           e == Smallest(E)
           size == parse_chunk_size(SubSeq(input, input_offset + 1, e))
<1>1. /\ pc = "line" /\ UNCHANGED <<netVars, headVars, output_len>> /\ Walk
      /\ pc' \in {"data", "returned"}
  <2>1. pc' \in {"data", "returned"}
    BY DEF DecodeLine, Return, LastChunk
  <2> QED
    BY <2>1 DEF DecodeLine, DecodeInv
<1>2. E = {} => pc' = "returned" /\ decoded_len' = 0
  BY DEF DecodeLine, Return
<1>3. E # {} =>
        /\ input_offset' = IF size < 0 THEN input_offset ELSE e + 2
        /\ CASE size < 0 -> Return(0) /\ UNCHANGED <<chunk_size, output>>
             [] size = 0 -> LastChunk /\ UNCHANGED chunk_size
             [] size > 0 /\ ChunkArrived(size, e + 2) /\ ChunkFits(size) ->
                  /\ pc' = "data" /\ chunk_size' = size
                  /\ UNCHANGED <<output, decoded_len>>
             [] OTHER -> Return(0) /\ UNCHANGED <<chunk_size, output>>
  BY DEF DecodeLine
<1>4. pc' # "returned" => decoded_len' = decoded_len
  <2>1. CASE E = {}
    BY <1>2, <2>1
  <2>2. CASE E # {}
    <3> HIDE DEF size, e, E
    <3> QED
      BY <1>3, <2>2 DEF Return, LastChunk
  <2> QED
    BY <2>1, <2>2
<1>5. ASSUME Followed
      PROVE  /\ pc' = "data" => AtData(b, input_offset', chunk_size', output')
             /\ pc' = "returned" => Verdict(decoded_len', output')
  <2>1. PICK c \in 0 .. ChunkCount(b) : input_offset = ChunkStart(b, c) /\ output = DataTo(b, c)
    BY <1>1, <1>5 DEF Walk, AtLine
  <2> DEFINE p == ChunkStart(b, c) + LineLen(b, c)
             n == SizeAt(b, c)
  <2>2. /\ p \in Nat /\ n \in Nat
        /\ E # {} => e = p /\ size = n
        /\ WholeWithRoom => E # {}
        /\ E # {} /\ c = ChunkCount(b) => ~CutBeforeLastChunk
    BY <1>1, <1>5, <2>1, LineKnown, Zenon
  <2>3. b \in Body /\ PlainBody(b)
    BY <1>1, <1>5, ChunksFollowed DEF Followed, WholeWithRoom
  <2>4. n = 0 <=> c = ChunkCount(b)
    BY <2>3, LastChunkSize
  <2>5. ChunkCount(b) \in Nat
    BY <2>3, BodyLayout
  <2>6. CASE E = {}
    BY <1>2, <2>2, <2>6 DEF Verdict
  <2>7. CASE E # {} /\ n = 0
    <3>1. LastChunk
      <4> HIDE DEF size, e, E, n
      <4> QED
        BY <1>3, <2>2, <2>7
    <3>2. output = Data(b)
      BY <2>1, <2>3, <2>4, <2>7, DataLayout
    <3>3. ~CutBeforeLastChunk /\ WholeWithRoom
      BY <1>5, <2>2, <2>4, <2>7 DEF Followed
    <3>4. ~(Len(output) >= output_len)
      <4>1. Len(output) \in Nat /\ output_len \in Nat /\ (output_len > 0 => Len(output) < output_len)
        BY DecoderFacts
      <4>2. output_len > 0
        BY <1>1 DEF ResponseInv, DecoderPhases
      <4> QED
        BY <4>1, <4>2
    <3>5. pc' = "returned" /\ decoded_len' = Len(output) /\ output' = output
      BY <3>1, <3>4 DEF LastChunk, Return
    <3> QED
      BY <3>2, <3>3, <3>5 DEF Verdict
  <2>8. CASE E # {} /\ n # 0
    <3>1. c \in 0 .. (ChunkCount(b) - 1)
      BY <2>4, <2>5, <2>8
    <3>2. /\ input_offset' = p + 2 /\ output' = output
          /\ \/ pc' = "data" /\ chunk_size' = n
             \/ pc' = "returned" /\ decoded_len' = 0 /\ ~(ChunkArrived(n, p + 2) /\ ChunkFits(n))
      <4> DEFINE fits == ChunkArrived(n, p + 2) /\ ChunkFits(n)
      <4>1. /\ input_offset' = IF n < 0 THEN input_offset ELSE p + 2
            /\ CASE n < 0 -> Return(0) /\ UNCHANGED <<chunk_size, output>>
                 [] n = 0 -> LastChunk /\ UNCHANGED chunk_size
                 [] n > 0 /\ fits -> /\ pc' = "data" /\ chunk_size' = n
                                     /\ UNCHANGED <<output, decoded_len>>
                 [] OTHER -> Return(0) /\ UNCHANGED <<chunk_size, output>>
        <5> HIDE DEF size, e, E, n, p
        <5> QED
          BY <1>3, <2>2, <2>8
      <4> HIDE DEF n, p, fits
      <4>2. n > 0
        BY <2>2, <2>8
      <4> QED
        BY <2>2, <4>1, <4>2 DEF Return, fits
    <3>3. WholeWithRoom => ChunkArrived(n, p + 2) /\ ChunkFits(n)
      BY <1>1, <2>1, <3>1, ChunkTaken
    <3>4. CASE pc' = "data" /\ chunk_size' = n
      <4>1. AtData(b, input_offset', chunk_size', output')
        BY <2>1, <3>1, <3>2, <3>4, Zenon DEF AtData
      <4> QED
        BY <3>4, <4>1
    <3>5. CASE pc' = "returned" /\ decoded_len' = 0 /\ ~(ChunkArrived(n, p + 2) /\ ChunkFits(n))
      BY <3>3, <3>5 DEF Verdict
    <3> QED
      BY <3>2, <3>4, <3>5
  <2> QED
    BY <2>6, <2>7, <2>8
<1>6. pc' # "line"
  BY <1>1
<1> HIDE DEF b, E, e, size
<1> QED
  BY <1>1, <1>4, <1>5, <1>6, WalkStep DEF b

\* A byte of the body that arrived is the one that was sent.
LEMMA ByteSent ==
  ASSUME ResponseInv, NEW C \in Seq(Nat), BeginsLike(input, C), NEW o \in Nat,
         o < Len(input), o < Len(C)
  PROVE  ByteAt(o) = C[o + 1]
<1>1. Len(input) \in Nat /\ Len(C) \in Nat
  BY DecoderFacts
<1>2. o + 1 \in 1 .. Len(C) /\ o + 1 <= Len(input)
  BY <1>1
<1>3. input[o + 1] = C[o + 1]
  BY <1>2 DEF BeginsLike
<1> QED
  BY <1>3 DEF ByteAt

\* What the decoder copies is the chunk's data.
LEMMA DataCopied ==
  ASSUME ResponseInv, HeadInv, pc = "data", Followed, NEW c \in 0 .. (ChunkCount(sent.body) - 1),
         input_offset = ChunkStart(sent.body, c) + LineLen(sent.body, c) + 2,
         chunk_size = SizeAt(sent.body, c), output = DataTo(sent.body, c)
  PROVE  LET o == input_offset + chunk_size
         IN  /\ o \in Nat /\ c + 1 \in 0 .. ChunkCount(sent.body)
             /\ o + 2 = ChunkStart(sent.body, c + 1)
             /\ output \o [k \in 1 .. chunk_size |-> ByteAt(input_offset + k - 1)]
                  = DataTo(sent.body, c + 1)
             /\ o + 2 <= Len(input) => Closed(o)
             /\ WholeWithRoom => o + 2 < Len(input)
<1> DEFINE b == sent.body
           o == input_offset + chunk_size
           C == Chunks(b)
           x == b.chunks[c + 1]
           y == [k \in 1 .. chunk_size |-> ByteAt(input_offset + k - 1)]
<1>1. /\ b \in Body /\ Len(input) \in Nat /\ BeginsLike(input, C) /\ Len(C) \in Nat
      /\ WholeWithRoom => Len(input) >= Len(C) + 2
  BY ChunksFollowed DEF Followed, WholeWithRoom
<1>2. C \in Seq(Nat) /\ DataWritten(C, b, c) /\ ChunkCount(b) \in Nat
  BY <1>1, BodyLayout
<1>3. /\ x \in Seq(Nat) /\ Len(x) = chunk_size /\ chunk_size \in Nat /\ input_offset \in Nat
      /\ o + 2 = ChunkStart(b, c + 1) /\ ChunkStart(b, c + 1) < Len(C)
      /\ \A j \in 1 .. chunk_size : C[input_offset + j] = x[j]
      /\ C[o + 1] = CR /\ C[o + 2] = LF
  BY <1>2 DEF DataWritten
<1>4. DataTo(b, c + 1) = output \o x
  BY <1>1, DataLayout
<1>5. o <= Len(input)
  BY DEF ResponseInv, DecoderPhases
<1>6. o \in Nat /\ c + 1 \in 0 .. ChunkCount(b) /\ o + 2 < Len(C)
  <2>1. c + 1 \in 0 .. ChunkCount(b)
    BY <1>2
  <2>2. o + 2 < Len(C)
    BY <1>3, Zenon
  <2>3. o \in Nat
    <3>1. input_offset \in Nat /\ chunk_size \in Nat
      BY <1>3, Zenon
    <3> QED
      BY <3>1
  <2> QED
    BY <2>1, <2>2, <2>3
<1> HIDE DEF b, C, x
<1>7. \A j \in 1 .. chunk_size : ByteAt(input_offset + j - 1) = x[j]
  <2> SUFFICES ASSUME NEW j \in 1 .. chunk_size PROVE ByteAt(input_offset + j - 1) = x[j]
    OBVIOUS
  <2>1. /\ input_offset + j - 1 \in Nat /\ (input_offset + j - 1) + 1 = input_offset + j
        /\ input_offset + j - 1 < Len(input) /\ input_offset + j - 1 < Len(C)
    <3>1. /\ input_offset \in Nat /\ chunk_size \in Nat /\ Len(input) \in Nat /\ Len(C) \in Nat
          /\ input_offset + chunk_size <= Len(input) /\ input_offset + chunk_size + 2 < Len(C)
      BY <1>1, <1>3, <1>5, <1>6
    <3> QED
      BY <3>1, SMTT(30)
  <2>2. ByteAt(input_offset + j - 1) = C[(input_offset + j - 1) + 1]
    BY <1>1, <1>2, <2>1, ByteSent
  <2> QED
    BY <1>3, <2>1, <2>2, Zenon
<1>8. y = x
  <2>1. x = [k \in 1 .. chunk_size |-> x[k]]
    BY <1>3, SeqIsFunction
  <2> QED
    BY <1>7, <2>1
<1>9. o + 2 <= Len(input) => Closed(o)
  <2> SUFFICES ASSUME o + 2 <= Len(input) PROVE Closed(o)
    OBVIOUS
  <2> HIDE DEF o
  <2>1. /\ o < Len(input) /\ o < Len(C) /\ o + 1 \in Nat /\ o + 1 < Len(input) /\ o + 1 < Len(C)
        /\ (o + 1) + 1 = o + 2
    BY <1>1, <1>6
  <2>2. ByteAt(o) = C[o + 1]
    BY <1>1, <1>2, <1>6, <2>1, ByteSent
  <2>3. ByteAt(o + 1) = C[(o + 1) + 1]
    BY <1>1, <1>2, <2>1, ByteSent
  <2> QED
    BY <1>3, <2>1, <2>2, <2>3, Zenon DEF Closed, o
<1>10. WholeWithRoom => o + 2 < Len(input)
  BY <1>1, <1>6
<1> QED
  BY <1>3, <1>4, <1>6, <1>8, <1>9, <1>10, Zenon DEF b

\* A chunk's data leads to the next size line.
LEMMA DecodeDataWalk == ResponseInv /\ HeadInv /\ DecodeInv /\ DecodeData => DecodeInv'
<1> SUFFICES ASSUME ResponseInv, HeadInv, DecodeInv, DecodeData PROVE DecodeInv'
  OBVIOUS
<1> DEFINE b == sent.body
           o == input_offset + chunk_size
           y == [k \in 1 .. chunk_size |-> ByteAt(input_offset + k - 1)]
<1>1. /\ pc = "data" /\ UNCHANGED <<netVars, headVars, output_len>> /\ Walk
      /\ pc' \in {"line", "returned"} /\ output' = output \o y
      /\ pc' # "returned" => decoded_len' = decoded_len
  BY DEF DecodeData, Return, DecodeInv
<1>2. /\ pc' = "line" => Closed(o) /\ input_offset' = o + 2
      /\ pc' = "returned" => decoded_len' = 0 /\ (~Closed(o) \/ ~(o + 2 < Len(input)))
  BY DEF DecodeData, Return
<1>3. ASSUME Followed
      PROVE  /\ pc' = "line" => AtLine(b, input_offset', output')
             /\ pc' = "returned" => Verdict(decoded_len', output')
  <2>1. PICK c \in 0 .. (ChunkCount(b) - 1) :
          /\ input_offset = ChunkStart(b, c) + LineLen(b, c) + 2
          /\ chunk_size = SizeAt(b, c) /\ output = DataTo(b, c)
    BY <1>1, <1>3 DEF Walk, AtData
  <2>2. /\ o \in Nat /\ c + 1 \in 0 .. ChunkCount(b) /\ o + 2 = ChunkStart(b, c + 1)
        /\ output \o y = DataTo(b, c + 1)
        /\ o + 2 <= Len(input) => Closed(o)
        /\ WholeWithRoom => o + 2 < Len(input)
    BY <1>1, <1>3, <2>1, DataCopied, Zenon
  <2> HIDE DEF b, o, y
  <2>3. pc' = "line" => AtLine(b, input_offset', output')
    BY <1>1, <1>2, <2>2, Zenon DEF AtLine
  <2>4. WholeWithRoom => Closed(o) /\ o + 2 < Len(input)
    BY <2>2, DecoderFacts
  <2>5. pc' = "returned" => Verdict(decoded_len', output')
    BY <1>2, <2>4 DEF Verdict
  <2> QED
    BY <2>3, <2>5
<1>4. pc' # "data"
  BY <1>1
<1> HIDE DEF b, o, y
<1> QED
  BY <1>1, <1>3, <1>4, WalkStep DEF b

\* Nothing is returned before the decoder has room; it starts at the first chunk.
LEMMA ParseWalk ==
  ResponseInv /\ HeadInv /\ DecodeInv /\ (ParseFails \/ PrintPlain \/ StartDecoding) => DecodeInv'
<1> SUFFICES ASSUME ResponseInv, HeadInv, DecodeInv, ParseFails \/ PrintPlain \/ StartDecoding
             PROVE  DecodeInv'
  OBVIOUS
<1>1. /\ pc = "parse" /\ UNCHANGED <<sent, input_offset, output, decoded_len>>
  BY DEF ParseFails, PrintPlain, StartDecoding, netVars, decoderVars
<1>2. input_offset' = 0 /\ output' = <<>> /\ output_len = 0 /\ decoded_len' = 0
  BY <1>1 DEF ResponseInv, DecoderPhases, DecodeInv, Walk
<1>3. /\ pc' \in {"failed", "printed", "no_memory", "returned", "line"}
      /\ pc' \in {"line", "returned"} => chunked'
      /\ pc' \in {"failed", "printed", "returned"} => output_len' = 0
  <2>1. CASE ParseFails \/ PrintPlain
    BY <1>2, <2>1 DEF ParseFails, PrintPlain
  <2>2. CASE StartDecoding
    BY <1>2, <2>2 DEF StartDecoding
  <2> QED
    BY <2>1, <2>2
<1>4. sent'.body \in Body
  BY <1>1, SentPlain DEF HeadInv, HeadArrives
<1> DEFINE b == sent'.body
<1> HIDE DEF b
<1>5. Len(Data(b)) \in Nat /\ AtLine(b, 0, <<>>)
  <2>1. b \in Body
    BY <1>4 DEF b
  <2>2. Len(Data(b)) \in Nat /\ DataTo(b, 0) = <<>>
    BY <2>1, DataLayout
  <2>3. ChunkStart(b, 0) = 0 /\ ChunkCount(b) \in Nat
    BY <2>1, BodyLayout
  <2>4. 0 \in 0 .. ChunkCount(b)
    BY <2>3
  <2> QED
    BY <2>2, <2>3, <2>4, Zenon DEF AtLine
<1>6. Walk'
  <2>1. AtLine(sent'.body, input_offset', output')
    BY <1>2, <1>5, Zenon DEF b
  <2>2. pc' # "data"
    BY <1>3
  <2> QED
    BY <1>2, <1>3, <2>1, <2>2 DEF Walk
<1>7. WholeOrNothing'
  <2> SUFFICES ASSUME pc' \in {"returned", "printed", "failed"} PROVE ~(output_len' > Len(Data(b)))
    BY <1>2 DEF WholeOrNothing, b
  <2>1. output_len' = 0
    BY <1>3
  <2> QED
    BY <1>5, <2>1
<1> QED
  BY <1>6, <1>7 DEF DecodeInv

\* Every step keeps it.
LEMMA DecodeStep == ResponseInv /\ HeadInv /\ DecodeInv /\ [ResponseNext]_rvars => DecodeInv'
<1> SUFFICES ASSUME ResponseInv, HeadInv, DecodeInv, [ResponseNext]_rvars PROVE DecodeInv'
  OBVIOUS
<1>1. CASE UNCHANGED rvars \/ PrintDecoded
  <2>1. /\ UNCHANGED <<sent, arrived, data, response, chunked, output_len>>
        /\ UNCHANGED <<input_offset, chunk_size, output, decoded_len>>
        /\ pc' = pc \/ (pc = "returned" /\ pc' \in {"printed", "failed"})
    BY <1>1 DEF rvars, PrintDecoded, netVars, headVars, decoderVars
  <2>2. /\ Chunked("whole")' <=> Chunked("whole")
        /\ CutBeforeLastChunk' <=> CutBeforeLastChunk
        /\ Followed' <=> Followed
    BY <2>1, Zenon DEF Chunked, CutBeforeLastChunk, Followed, WholeWithRoom
  <2>3. WholeOrNothing'
    <3>1. pc' \in {"returned", "printed", "failed"} => pc \in {"returned", "printed", "failed"}
      BY <2>1
    <3> QED
      BY <2>1, <2>2, <3>1, Zenon DEF DecodeInv, WholeOrNothing
  <2>4. Walk'
    <3>1. CASE pc' = pc
      BY <2>1, <2>2, <3>1, Zenon DEF DecodeInv, Walk
    <3>2. CASE pc' \in {"printed", "failed"}
      BY <3>2 DEF Walk
    <3> QED
      BY <2>1, <3>1, <3>2
  <2> QED
    BY <2>3, <2>4 DEF DecodeInv
<1>2. CASE Network \/ DamagedBody \/ AnyBody
  <2>1. pc = "server" /\ pc' = "parse" /\ decoded_len' = decoded_len
    BY <1>2 DEF Network, DamagedBody, AnyBody, Arrive
  <2>2. decoded_len' = 0
    BY <2>1 DEF DecodeInv, Walk
  <2> QED
    BY <2>1, <2>2 DEF DecodeInv, Walk, WholeOrNothing
<1> QED
  BY <1>1, <1>2, ParseWalk, DecodeLineWalk, DecodeDataWalk DEF ResponseNext, print_http_response

(***************************************************************************)
(* The client.                                                             *)
(***************************************************************************)
\* What the client returns is decided where it ends.
LEMMA VerdictStep ==
  ResponseInv /\ HeadInv /\ DecodeInv /\ HeadInv' /\ ClientVerdict /\ [ResponseNext]_rvars
  => ClientVerdict'
<1> SUFFICES ASSUME ResponseInv, HeadInv, DecodeInv, HeadInv', ClientVerdict, [ResponseNext]_rvars
             PROVE  ClientVerdict'
  OBVIOUS
<1> DEFINE h == HeadOf(sent)
<1>1. CASE UNCHANGED rvars
  <2>1. UNCHANGED <<pc, sent, arrived, data, response, output_len>>
    BY <1>1 DEF rvars, netVars, headVars
  <2>2. CutBeforeLastChunk' <=> CutBeforeLastChunk
    BY <2>1, Zenon DEF CutBeforeLastChunk, Chunked
  <2> QED
    BY <2>1, <2>2, Zenon DEF ClientVerdict, input
<1>2. CASE pc' # "failed" /\ pc' # "printed"
  BY <1>2 DEF ClientVerdict
<1>3. sent \in Responses
  BY DEF HeadInv, HeadArrives
<1>4. Len(h) \in Nat /\ Len(BodyOf(sent)) \in Nat
      /\ Len(h \o BodyOf(sent)) = Len(h) + Len(BodyOf(sent))
  BY <1>3, SentType, BeginsConcat
<1>5. data \in Seq(Nat) /\ Len(data) \in Nat
  <2>1. data \in Seq(Nat)
    BY DEF ResponseInv, ResponseTypeOK
  <2> QED
    BY <2>1
<1>6. CASE ParseFails
  <2>1. /\ pc = "parse" /\ pc' = "failed" /\ http_parse_response(data).rc # 0
        /\ UNCHANGED <<sent, arrived, data>>
    BY <1>6 DEF ParseFails, netVars
  <2>2. ~(WellFormed(sent) /\ arrived = "whole")
    <3> SUFFICES ASSUME WellFormed(sent), arrived = "whole" PROVE FALSE
      OBVIOUS
    <3>1. Len(data) = Len(h \o BodyOf(sent))
      BY <2>1 DEF HeadInv, HeadArrives
    <3>2. Len(data) >= Len(h)
      <4> HIDE DEF h
      <4> QED
        BY <1>4, <1>5, <3>1
    <3>3. http_parse_response(data).rc = 0
      BY <2>1, <3>2, ParseHead
    <3> QED
      BY <2>1, <3>3
  <2> QED
    BY <2>1, <2>2 DEF ClientVerdict
<1>7. CASE PrintPlain
  <2>1. pc = "parse" /\ pc' = "printed" /\ ~chunked' /\ UNCHANGED <<sent, arrived, data>>
    BY <1>7 DEF PrintPlain, netVars
  <2>2. ~CutBeforeLastChunk'
    <3> SUFFICES ASSUME WellFormed(sent), IsChunked(sent) PROVE FALSE
      BY <2>1 DEF CutBeforeLastChunk, Chunked
    <3>1. Parsed'
      BY <2>1 DEF Parsed
    <3>2. ~(Len(data) < Len(h))
      BY <2>1, <3>1 DEF HeadInv, CutHeadRefused
    <3>3. Len(data) >= Len(h)
      <4> HIDE DEF h
      <4> QED
        BY <1>4, <1>5, <3>2
    <3>4. chunked' = IsChunked(sent)
      BY <2>1, <3>1, <3>3 DEF HeadInv, HeadUnderstood
    <3> QED
      BY <2>1, <3>4
  <2> QED
    BY <2>1, <2>2 DEF ClientVerdict
<1>8. CASE PrintDecoded
  <2>1. /\ pc = "returned" /\ UNCHANGED <<sent, arrived, data, response, chunked, output_len, decoded_len>>
        /\ pc' = IF decoded_len = 0 /\ Len(input) > 5 THEN "failed" ELSE "printed"
    BY <1>8 DEF PrintDecoded, netVars, headVars
  <2>2. input' = input
    BY <2>1 DEF input
  <2>3. CutBeforeLastChunk' <=> CutBeforeLastChunk
    BY <2>1, Zenon DEF CutBeforeLastChunk, Chunked
  <2>4. CutBeforeLastChunk => decoded_len = 0
    BY <2>1 DEF DecodeInv, WholeOrNothing
  <2>5. ASSUME WellFormed(sent), arrived = "whole", Data(sent.body) # <<>>,
               ~IsChunked(sent) \/ output_len = Len(input) + 1
        PROVE  decoded_len # 0
    <3>1. chunked /\ Parsed /\ pc # "failed" /\ pc # "server"
      BY <2>1 DEF DecodeInv, Walk, Parsed
    <3>2. ~(Len(data) < Len(h))
      BY <3>1 DEF HeadInv, CutHeadRefused
    <3>3. Len(data) >= Len(h)
      <4> HIDE DEF h
      <4> QED
        BY <1>4, <1>5, <3>2
    <3>4. IsChunked(sent)
      BY <2>5, <3>1, <3>3 DEF HeadInv, HeadUnderstood
    <3>5. Chunked("whole")
      BY <2>5, <3>4 DEF Chunked
    <3> DEFINE b == sent.body
    <3>6. /\ b \in Body /\ Len(input) \in Nat /\ Len(Chunks(b)) \in Nat
          /\ Len(input) >= Len(Chunks(b)) + 2
      BY <2>1, <3>5, ChunksFollowed
    <3>7. Data(b) \in Seq(Nat) /\ Len(Data(b)) \in Nat /\ Len(Data(b)) <= Len(Chunks(b))
      <4>1. ChunkCount(b) \in Nat /\ LineWritten(Chunks(b), b, ChunkCount(b))
        <5>1. ChunkCount(b) \in Nat
          BY <3>6, BodyLayout
        <5>2. ChunkCount(b) \in 0 .. ChunkCount(b)
          BY <5>1
        <5> QED
          BY <3>6, <5>1, <5>2, BodyLayout
      <4>2. ChunkCount(b) \in 0 .. ChunkCount(b)
        BY <4>1
      <4>3. /\ Data(b) \in Seq(Nat) /\ Len(Data(b)) \in Nat
            /\ Len(Data(b)) <= ChunkStart(b, ChunkCount(b))
        BY <3>6, <4>2, DataLayout
      <4>4. /\ ChunkStart(b, ChunkCount(b)) \in Nat /\ LineLen(b, ChunkCount(b)) \in Nat
            /\ ChunkStart(b, ChunkCount(b)) + LineLen(b, ChunkCount(b)) + 2 <= Len(Chunks(b))
        BY <4>1 DEF LineWritten
      <4> QED
        BY <3>6, <4>3, <4>4
    <3>8. output_len > Len(Data(b))
      <4>1. output_len = Len(input) + 1
        BY <2>5, <3>4
      <4> QED
        BY <3>6, <3>7, <4>1
    <3>9. decoded_len = Len(Data(b))
      BY <2>1, <3>5, <3>8 DEF DecodeInv, WholeOrNothing
    <3>10. Len(Data(b)) # 0
      <4> DEFINE d == Data(b)
      <4> HIDE DEF d
      <4>1. d \in Seq(Nat) /\ d # <<>>
        BY <2>5, <3>7 DEF d
      <4>2. Len(d) # 0
        BY <4>1
      <4> QED
        BY <4>2 DEF d
    <3> QED
      BY <3>9, <3>10
  <2>6. WellFormed(sent)' /\ (arrived = "whole")' /\ (Data(sent.body) # <<>>)'
        /\ (~IsChunked(sent) \/ output_len = Len(input) + 1)' => pc' # "failed"
    BY <2>1, <2>2, <2>5
  <2>7. CutBeforeLastChunk' /\ (Len(input) > 5)' => pc' # "printed"
    BY <2>1, <2>2, <2>3, <2>4
  <2> QED
    BY <2>6, <2>7 DEF ClientVerdict
<1>9. Network \/ DamagedBody \/ AnyBody \/ StartDecoding \/ DecodeLine \/ DecodeData
      => pc' # "failed" /\ pc' # "printed"
  <2>1. Network \/ DamagedBody \/ AnyBody => pc' = "parse"
    BY DEF Network, DamagedBody, AnyBody, Arrive
  <2>2. StartDecoding => pc' \in {"no_memory", "returned", "line"}
    BY DEF StartDecoding
  <2>3. DecodeLine => pc' \in {"data", "returned"}
    BY DEF DecodeLine, Return, LastChunk
  <2>4. DecodeData => pc' \in {"line", "returned"}
    BY DEF DecodeData, Return
  <2> QED
    BY <2>1, <2>2, <2>3, <2>4
<1> QED
  BY <1>1, <1>2, <1>6, <1>7, <1>8, <1>9 DEF ResponseNext, print_http_response

(***************************************************************************)
(* The theorems about the head, the chunks and the client.                 *)
(***************************************************************************)
\* Together they are inductive: the decoder's walk from chunk to chunk needs the
\* head to be understood, and the client's verdict needs what the walk yields.
THEOREM ClientInvariant == ResponseSpec => [](ResponseInv /\ HeadInv /\ DecodeInv /\ ClientVerdict)
<1>1. ResponseInit => ClientVerdict
  <2> SUFFICES ASSUME ResponseInit PROVE ClientVerdict
    OBVIOUS
  <2>1. pc = "server"
    BY DEF ResponseInit
  <2> QED
    BY <2>1 DEF ClientVerdict
<1> QED
  BY <1>1, ResponseInitInv, HeadInitInv, DecodeInitInv, ResponseStep, HeadStep, DecodeStep,
     VerdictStep, PTL DEF ResponseSpec

\* http_parse_response and http_response_is_chunked read a head that has arrived
\* as the server wrote it, whatever the body behind it looks like.
THEOREM HeadUnderstoodHolds == ResponseSpec => []HeadUnderstood
<1>1. HeadInv => HeadUnderstood
  BY DEF HeadInv
<1> QED
  BY <1>1, ClientInvariant, PTL

\* http_parse_response refuses every head that was cut.
THEOREM CutHeadRefusedHolds == ResponseSpec => []CutHeadRefused
<1>1. HeadInv => CutHeadRefused
  BY DEF HeadInv
<1> QED
  BY <1>1, ClientInvariant, PTL

\* http_decode_chunked_body yields the server's data or nothing, for any number
\* of chunks of any length, whatever they contain.
THEOREM WholeOrNothingHolds == ResponseSpec => []WholeOrNothing
<1>1. DecodeInv => WholeOrNothing
  BY DEF DecodeInv
<1> QED
  BY <1>1, ClientInvariant, PTL

\* print_http_response prints a response that arrived whole, and reports a
\* chunked one that was cut.
THEOREM ClientVerdictHolds == ResponseSpec => []ClientVerdict
BY ClientInvariant, PTL
==================================================================================
