---------------------------- MODULE FramePath_proofs ----------------------------
(***************************************************************************)
(* A message that fits into a frame comes out of the other host's receive  *)
(* loop as it went in, and a frame that was cut or changed in one byte     *)
(* never as another one, for every message, address, port and size; and a  *)
(* message stays unsent only if it is too long for a frame.                *)
(*                                                                         *)
(* The sums are those of the Internet checksum: addition with the carry    *)
(* brought around, in which 0 and 65535 are alike.                         *)
(***************************************************************************)
EXTENDS FramePath, Basics_proofs

(***************************************************************************)
(* Sums of words.                                                          *)
(***************************************************************************)
\* The carry is brought around once.
LEMMA AddIs ==
  ASSUME NEW s \in Word, NEW w \in Word
  PROVE  /\ checksum_add(s, w) = IF s + w < 65536 THEN s + w ELSE s + w - 65535
         /\ checksum_add(s, w) \in Word
<1> DEFINE t == s + w
<1>1. t \in Nat /\ t <= 131070
  BY DEF Word
<1> HIDE DEF t
<1>2. /\ t < 65536 => t % 65536 = t /\ t \div 65536 = 0
      /\ ~(t < 65536) => t % 65536 = t - 65536 /\ t \div 65536 = 1
  BY <1>1
<1>3. checksum_add(s, w) = (t % 65536) + (t \div 65536)
  BY DEF checksum_add, Fold, t
<1>4. checksum_add(s, w) = IF t < 65536 THEN t ELSE t - 65535
  BY <1>1, <1>2, <1>3
<1>5. (IF t < 65536 THEN t ELSE t - 65535) \in {n \in Nat : n <= 65535}
  BY <1>1
<1> QED
  BY <1>4, <1>5 DEF t, Word

\* The order of the words does not matter.
LEMMA AddSwap ==
  ASSUME NEW s \in Word, NEW v \in Word, NEW w \in Word
  PROVE  checksum_add(checksum_add(s, v), w) = checksum_add(checksum_add(s, w), v)
<1>1. /\ checksum_add(s, v) = IF s + v < 65536 THEN s + v ELSE s + v - 65535
      /\ checksum_add(s, w) = IF s + w < 65536 THEN s + w ELSE s + w - 65535
      /\ checksum_add(s, v) \in Word /\ checksum_add(s, w) \in Word
  BY AddIs
<1> DEFINE a == checksum_add(s, v)
           b == checksum_add(s, w)
<1>2. /\ checksum_add(a, w) = IF a + w < 65536 THEN a + w ELSE a + w - 65535
      /\ checksum_add(b, v) = IF b + v < 65536 THEN b + v ELSE b + v - 65535
  BY <1>1, AddIs
<1> HIDE DEF a, b
<1>3. /\ a = IF s + v < 65536 THEN s + v ELSE s + v - 65535
      /\ b = IF s + w < 65536 THEN s + w ELSE s + w - 65535
  BY <1>1 DEF a, b
<1>4. /\ s \in Nat /\ v \in Nat /\ w \in Nat
      /\ s <= 65535 /\ v <= 65535 /\ w <= 65535
  BY DEF Word
<1>5. (IF a + w < 65536 THEN a + w ELSE a + w - 65535) = (IF b + v < 65536 THEN b + v ELSE b + v - 65535)
  BY <1>3, <1>4
<1> QED
  BY <1>2, <1>5 DEF a, b

\* 0 and 65535 are the same number.
Alike(x, y) == x = y \/ (x \in {0, 65535} /\ y \in {0, 65535})

\* A sum tells words apart that are not alike, and nothing added later hides it.
LEMMA AddAlike ==
  ASSUME NEW x \in Word, NEW y \in Word, NEW w \in Word
  PROVE  /\ Alike(checksum_add(x, w), checksum_add(y, w)) <=> Alike(x, y)
         /\ Alike(checksum_add(w, x), checksum_add(w, y)) <=> Alike(x, y)
<1>1. /\ checksum_add(x, w) = IF x + w < 65536 THEN x + w ELSE x + w - 65535
      /\ checksum_add(y, w) = IF y + w < 65536 THEN y + w ELSE y + w - 65535
      /\ checksum_add(w, x) = IF w + x < 65536 THEN w + x ELSE w + x - 65535
      /\ checksum_add(w, y) = IF w + y < 65536 THEN w + y ELSE w + y - 65535
  BY AddIs
<1>2. /\ x \in Nat /\ y \in Nat /\ w \in Nat
      /\ x <= 65535 /\ y <= 65535 /\ w <= 65535
  BY DEF Word
<1> DEFINE a == checksum_add(x, w)
           b == checksum_add(y, w)
<1>3. checksum_add(w, x) = a /\ checksum_add(w, y) = b
  BY <1>1, <1>2
<1>4. /\ a = IF x + w < 65536 THEN x + w ELSE x + w - 65535
      /\ b = IF y + w < 65536 THEN y + w ELSE y + w - 65535
  BY <1>1
<1> HIDE DEF a, b
<1>5. (a = b \/ (a \in {0, 65535} /\ b \in {0, 65535})) <=> (x = y \/ (x \in {0, 65535} /\ y \in {0, 65535}))
  BY <1>2, <1>4
<1> QED
  BY <1>3, <1>5 DEF a, b, Alike

\* The sum of a word is complemented; no carry is left.
Folds(f) == f = [s \in Nat |-> IF s < 65536 THEN s ELSE f[Fold(s)]]

\* There is such a function: the remainder modulo 65535, in 1 to 65535.
LEMMA FoldsExists == \E f : Folds(f)
<1> DEFINE R(s) == IF s = 0 THEN 0 ELSE ((s - 1) % 65535) + 1
           f == [s \in Nat |-> R(s)]
<1>1. ASSUME NEW s \in Nat, s < 65536 PROVE R(s) = s
  <2>1. s # 0 => (s - 1) % 65535 = s - 1
    BY <1>1
  <2> QED
    BY <2>1
<1>2. ASSUME NEW s \in Nat, ~(s < 65536) PROVE Fold(s) \in Nat /\ R(s) = R(Fold(s))
  <2> DEFINE q == s \div 65536
             r == s % 65536
             y == r + q
             x == y - 1
  <2>1. q \in Nat /\ r \in Nat /\ r <= 65535 /\ s = 65536 * q + r /\ q > 0
    BY <1>2
  <2>2. Fold(s) = y
    BY DEF Fold
  <2> HIDE DEF q, r
  <2>3. y \in Nat /\ y # 0 /\ x \in Nat /\ s - 1 = x + 65535 * q /\ s # 0
    BY <2>1
  <2> HIDE DEF y
  <2>4. x \in Nat /\ x = y - 1
    BY <2>3
  <2> HIDE DEF x
  <2>5. (x + 65535 * q) % 65535 = x % 65535
    BY <2>1, <2>4
  <2>6. R(s) = ((x + 65535 * q) % 65535) + 1
    BY <2>3
  <2>7. R(y) = (x % 65535) + 1
    BY <2>3, <2>4
  <2> HIDE DEF R
  <2> QED
    BY <2>2, <2>3, <2>5, <2>6, <2>7
<1> HIDE DEF R
<1>3. ASSUME NEW s \in Nat PROVE R(s) = IF s < 65536 THEN s ELSE f[Fold(s)]
  <2>1. \A n \in Nat : f[n] = R(n)
    OBVIOUS
  <2> HIDE DEF f
  <2> QED
    BY <1>1, <1>2, <2>1
<1>4. f = [s \in Nat |-> IF s < 65536 THEN s ELSE f[Fold(s)]]
  BY <1>3
<1> HIDE DEF f
<1>5. Folds(f)
  BY <1>4 DEF Folds
<1> QED
  BY <1>5

\* What checksum_finish makes of a sum.
LEMMA FinishIs ==
  ASSUME NEW s \in Word
  PROVE  checksum_finish(s) = 65535 - s
<1> DEFINE f == CHOOSE f : Folds(f)
<1>1. checksum_finish(s) = 65535 - f[s]
  BY DEF checksum_finish, Folds
<1>2. Folds(f)
  BY FoldsExists
<1> HIDE DEF f
<1>3. s \in Nat /\ s < 65536
  BY DEF Word
<1>4. f[s] = s
  BY <1>2, <1>3 DEF Folds
<1> QED
  BY <1>1, <1>4

(***************************************************************************)
(* add_bytes, as a sum over the words of a buffer.                         *)
(***************************************************************************)
\* The words of a buffer; the last byte of an odd one is a high byte.
WordCount(d) == (Len(d) + 1) \div 2
WordAt(d, k) == IF 2 * k <= Len(d) THEN read_u16_be(d, 2 * (k - 1)) ELSE d[Len(d)] * 256

\* The sum of the first words.
Sums(f, s, d) ==
  f = [k \in 0 .. WordCount(d) |-> IF k = 0 THEN s ELSE checksum_add(f[k - 1], WordAt(d, k))]

\* A byte is a number up to 255.
LEMMA ByteIs == \A x : x \in Byte <=> x \in Nat /\ x <= 255
<1>1. \A x : x \in Byte <=> x \in Int /\ 0 <= x /\ x <= 255
  BY DEF Byte
<1> QED
  BY <1>1

\* The bytes of a buffer.
LEMMA BytesOf ==
  ASSUME NEW d \in Seq(Byte)
  PROVE  Len(d) \in Nat /\ \A j \in 1 .. Len(d) : d[j] \in Byte /\ d[j] \in Nat /\ d[j] <= 255
<1>1. Len(d) \in Nat /\ \A j \in 1 .. Len(d) : d[j] \in Byte
  OBVIOUS
<1> QED
  BY <1>1, ByteIs

\* Where the words lie.
LEMMA WordType ==
  ASSUME NEW d \in Seq(Byte)
  PROVE  /\ Len(d) \in Nat /\ WordCount(d) \in Nat
         /\ Len(d) \div 2 \in Nat /\ Len(d) \div 2 <= WordCount(d)
         /\ Len(d) % 2 = 0 => WordCount(d) = Len(d) \div 2 /\ Len(d) = 2 * (Len(d) \div 2)
         /\ Len(d) % 2 # 0 => /\ WordCount(d) = (Len(d) \div 2) + 1
                              /\ Len(d) = 2 * (Len(d) \div 2) + 1
         /\ \A k \in 1 .. WordCount(d) : 1 <= 2 * k - 1 /\ 2 * k - 1 <= Len(d)
         /\ \A k \in 1 .. WordCount(d) : WordAt(d, k) \in Word
<1>1. Len(d) \in Nat
  OBVIOUS
<1> DEFINE n == Len(d)
           h == n \div 2
           N == WordCount(d)
<1>2. N = (n + 1) \div 2
  BY DEF WordCount
<1> HIDE DEF n, N
<1>3. n \in Nat
  BY <1>1 DEF n
<1>4. /\ h \in Nat /\ N \in Nat /\ h <= N
      /\ n % 2 = 0 => N = h /\ n = 2 * h
      /\ n % 2 # 0 => N = h + 1 /\ n = 2 * h + 1
  BY <1>2, <1>3
<1>5. \A k \in 1 .. N : 1 <= 2 * k - 1 /\ 2 * k - 1 <= n
  BY <1>2, <1>3, <1>4
<1>6. ASSUME NEW k \in 1 .. N PROVE WordAt(d, k) \in Word
  <2>1. \A j \in 1 .. n : d[j] \in Nat /\ d[j] <= 255
    BY BytesOf DEF n
  <2>2. k \in Nat /\ 1 <= 2 * k - 1 /\ 2 * k - 1 <= n
    BY <1>4, <1>5
  <2>3. CASE 2 * k <= n
    <3> DEFINE a == d[2 * (k - 1) + 1]
               b == d[2 * (k - 1) + 2]
    <3>1. 2 * (k - 1) + 1 \in 1 .. n /\ 2 * (k - 1) + 2 \in 1 .. n
      BY <1>3, <2>2, <2>3
    <3>2. a \in Nat /\ a <= 255 /\ b \in Nat /\ b <= 255
      BY <2>1, <3>1
    <3>3. WordAt(d, k) = a * 256 + b
      BY <2>3 DEF WordAt, read_u16_be, n
    <3> HIDE DEF a, b
    <3>4. a * 256 + b \in Nat /\ a * 256 + b <= 65535
      BY <3>2
    <3> QED
      BY <3>3, <3>4 DEF Word
  <2>4. CASE ~(2 * k <= n)
    <3> DEFINE a == d[n]
    <3>1. n \in 1 .. n
      BY <1>3, <2>2
    <3>2. a \in Nat /\ a <= 255
      BY <2>1, <3>1
    <3>3. WordAt(d, k) = a * 256
      BY <2>4 DEF WordAt, n
    <3> HIDE DEF a
    <3>4. a * 256 \in Nat /\ a * 256 <= 65535
      BY <3>2
    <3> QED
      BY <3>3, <3>4 DEF Word
  <2> QED
    BY <2>3, <2>4
<1> QED
  BY <1>3, <1>4, <1>5, <1>6 DEF n, N

\* There is such a sum, and all its values are words.
LEMMA SumsExists ==
  ASSUME NEW s \in Word, NEW d \in Seq(Byte)
  PROVE  \E f \in [0 .. WordCount(d) -> Word] : Sums(f, s, d)
<1> DEFINE N == WordCount(d)
           w(k) == IF k \in 1 .. N THEN WordAt(d, k) ELSE 0
           step == [k \in Nat |-> [v \in Word |-> checksum_add(v, w(k))]]
<1>1. N \in Nat /\ \A k \in 1 .. N : WordAt(d, k) \in Word
  BY WordType
<1>2. \A k \in Nat : w(k) \in Word
  BY <1>1 DEF Word
<1> HIDE DEF N, w
<1>3. \A k \in Nat : \A v \in Word : checksum_add(v, w(k)) \in Word
  BY <1>2, AddIs
<1>4. step \in [Nat -> [Word -> Word]]
  BY <1>3
<1>5. \A k \in Nat : \A v \in Word : step[k][v] = checksum_add(v, w(k))
  OBVIOUS
<1> HIDE DEF step
<1>6. PICK f \in [0 .. N -> Word] : Computes(f, N, s, step)
  BY <1>1, <1>4, RecursionExists
<1>7. f = [k \in 0 .. N |-> IF k = 0 THEN s ELSE step[k][f[k - 1]]]
  BY <1>6 DEF Computes
<1>8. ASSUME NEW k \in 0 .. N, k # 0 PROVE step[k][f[k - 1]] = checksum_add(f[k - 1], WordAt(d, k))
  <2>1. k \in Nat /\ k \in 1 .. N /\ k - 1 \in 0 .. N
    BY <1>1, <1>8
  <2>2. f[k - 1] \in Word
    BY <1>6, <2>1
  <2>3. w(k) = WordAt(d, k)
    BY <2>1 DEF w
  <2> QED
    BY <1>5, <2>1, <2>2, <2>3
<1>9. f = [k \in 0 .. N |-> IF k = 0 THEN s ELSE checksum_add(f[k - 1], WordAt(d, k))]
  BY <1>7, <1>8
<1> QED
  BY <1>6, <1>9 DEF Sums, N

\* The sum that is meant below.
SumTo(s, d) == CHOOSE f : Sums(f, s, d)

\* It is what add_bytes computes.
LEMMA SumIs ==
  ASSUME NEW s \in Word, NEW d \in Seq(Byte)
  PROVE  /\ SumTo(s, d)[0] = s
         /\ \A k \in 0 .. WordCount(d) : SumTo(s, d)[k] \in Word
         /\ \A k \in 1 .. WordCount(d) :
              SumTo(s, d)[k] = checksum_add(SumTo(s, d)[k - 1], WordAt(d, k))
         /\ add_bytes(s, d) = SumTo(s, d)[WordCount(d)]
<1> DEFINE f == SumTo(s, d)
           N == WordCount(d)
           h == Len(d) \div 2
<1>1. Sums(f, s, d)
  BY SumsExists DEF SumTo
<1>2. /\ Len(d) \in Nat /\ N \in Nat /\ h \in Nat /\ h <= N
      /\ Len(d) % 2 = 0 => N = h /\ Len(d) = 2 * h
      /\ Len(d) % 2 # 0 => N = h + 1 /\ Len(d) = 2 * h + 1
      /\ \A k \in 1 .. N : WordAt(d, k) \in Word
  BY WordType
<1> HIDE DEF f, N, h
<1>3. f[0] = s /\ \A k \in 1 .. N : f[k] = checksum_add(f[k - 1], WordAt(d, k))
  <2>1. f = [k \in 0 .. N |-> IF k = 0 THEN s ELSE checksum_add(f[k - 1], WordAt(d, k))]
    BY <1>1 DEF Sums, N
  <2>2. 0 \in 0 .. N /\ \A k \in 1 .. N : k \in 0 .. N /\ k # 0
    BY <1>2
  <2> QED
    BY <2>1, <2>2
<1>4. \A k \in 0 .. N : f[k] \in Word
  <2> DEFINE S == {k \in Nat : k <= N => f[k] \in Word}
  <2>1. 0 \in S
    BY <1>3
  <2>2. ASSUME NEW k \in Nat, k \in S PROVE k + 1 \in S
    <3> SUFFICES ASSUME k + 1 <= N PROVE f[k + 1] \in Word
      OBVIOUS
    <3>1. f[k] \in Word /\ k + 1 \in 1 .. N /\ (k + 1) - 1 = k
      BY <1>2, <2>2
    <3>2. f[k + 1] = checksum_add(f[k], WordAt(d, k + 1)) /\ WordAt(d, k + 1) \in Word
      BY <1>2, <1>3, <3>1
    <3> QED
      BY <3>1, <3>2, AddIs
  <2>3. Nat \subseteq S
    <3> HIDE DEF S
    <3> QED
      BY <2>1, <2>2, SetInduction
  <2> QED
    BY <1>2, <2>3
<1> DEFINE A(g) == g = [k \in 0 .. h |-> IF k = 0 THEN s
                                         ELSE checksum_add(g[k - 1], read_u16_be(d, 2 * (k - 1)))]
           g == CHOOSE g : A(g)
           F == [k \in 0 .. h |-> f[k]]
<1>5. \A k \in 1 .. h : f[k] = checksum_add(f[k - 1], read_u16_be(d, 2 * (k - 1)))
  <2> SUFFICES ASSUME NEW k \in 1 .. h
               PROVE  f[k] = checksum_add(f[k - 1], read_u16_be(d, 2 * (k - 1)))
    OBVIOUS
  <2>1. k \in 1 .. N /\ 2 * k <= Len(d)
    BY <1>2
  <2>2. WordAt(d, k) = read_u16_be(d, 2 * (k - 1))
    BY <2>1 DEF WordAt
  <2> QED
    BY <1>3, <2>1, <2>2
<1>6. A(F)
  <2>1. ASSUME NEW k \in 0 .. h
        PROVE  f[k] = IF k = 0 THEN s ELSE checksum_add(F[k - 1], read_u16_be(d, 2 * (k - 1)))
    <3>1. CASE k = 0
      BY <1>3, <3>1
    <3>2. CASE k # 0
      <4>1. k \in 1 .. h /\ k - 1 \in 0 .. h
        BY <1>2, <3>2
      <4>2. F[k - 1] = f[k - 1]
        BY <4>1
      <4> HIDE DEF F
      <4> QED
        BY <1>5, <3>2, <4>1, <4>2
    <3> QED
      BY <3>1, <3>2
  <2> QED
    BY <2>1
<1>7. A(g)
  <2>1. \E e : A(e)
    <3> HIDE DEF A, F
    <3> QED
      BY <1>6
  <2> HIDE DEF A
  <2> QED
    BY <2>1
<1>8. add_bytes(s, d) = IF Len(d) % 2 = 0 THEN g[h] ELSE checksum_add(g[h], d[Len(d)] * 256)
  BY DEF add_bytes, h
<1>9. g[0] = s /\ \A k \in 1 .. h : g[k] = checksum_add(g[k - 1], read_u16_be(d, 2 * (k - 1)))
  <2> HIDE DEF g
  <2>1. 0 \in 0 .. h /\ \A k \in 1 .. h : k \in 0 .. h /\ k # 0
    BY <1>2
  <2> QED
    BY <1>7, <2>1
<1> HIDE DEF g, A, F
<1>10. g[h] = f[h]
  <2> DEFINE S == {k \in Nat : k <= h => g[k] = f[k]}
  <2>1. 0 \in S
    BY <1>3, <1>9
  <2>2. ASSUME NEW k \in Nat, k \in S PROVE k + 1 \in S
    <3> SUFFICES ASSUME k + 1 <= h PROVE g[k + 1] = f[k + 1]
      OBVIOUS
    <3>1. g[k] = f[k] /\ k + 1 \in 1 .. h /\ (k + 1) - 1 = k
      BY <1>2, <2>2
    <3> QED
      BY <1>5, <1>9, <3>1
  <2>3. Nat \subseteq S
    <3> HIDE DEF S
    <3> QED
      BY <2>1, <2>2, SetInduction
  <2> QED
    BY <1>2, <2>3
<1>11. add_bytes(s, d) = f[N]
  <2>1. CASE Len(d) % 2 = 0
    BY <1>2, <1>8, <1>10, <2>1
  <2>2. CASE Len(d) % 2 # 0
    <3>1. N = h + 1 /\ N \in 1 .. N /\ N - 1 = h /\ ~(2 * N <= Len(d))
      BY <1>2, <2>2
    <3>2. WordAt(d, N) = d[Len(d)] * 256
      BY <3>1 DEF WordAt
    <3>3. f[N] = checksum_add(f[h], d[Len(d)] * 256)
      BY <1>3, <3>1, <3>2
    <3> QED
      BY <1>8, <1>10, <2>2, <3>3
  <2> QED
    BY <2>1, <2>2
<1> QED
  BY <1>3, <1>4, <1>11 DEF f, N

\* Two buffers that differ in one word at most.
DifferAt(d, e, p) ==
  /\ Len(e) = Len(d) /\ p \in 1 .. WordCount(d)
  /\ \A k \in 1 .. WordCount(d) : k # p => WordAt(e, k) = WordAt(d, k)

\* A word written over a zero is added to the sum.
LEMMA SumPatched ==
  ASSUME NEW s \in Word, NEW d \in Seq(Byte), NEW e \in Seq(Byte), NEW p, DifferAt(d, e, p),
         WordAt(d, p) = 0
  PROVE  add_bytes(s, e) = checksum_add(add_bytes(s, d), WordAt(e, p))
<1> DEFINE N == WordCount(d)
           f == SumTo(s, d)
           g == SumTo(s, e)
           c == WordAt(e, p)
<1>1. WordCount(e) = N /\ N \in Nat /\ p \in 1 .. N
  BY WordType DEF DifferAt, WordCount
<1>2. /\ f[0] = s /\ \A k \in 0 .. N : f[k] \in Word
      /\ \A k \in 1 .. N : f[k] = checksum_add(f[k - 1], WordAt(d, k))
      /\ add_bytes(s, d) = f[N]
  BY SumIs
<1>3. /\ g[0] = s
      /\ \A k \in 1 .. N : g[k] = checksum_add(g[k - 1], WordAt(e, k))
      /\ add_bytes(s, e) = g[N]
  BY <1>1, SumIs
<1>4. \A k \in 1 .. N : k # p => WordAt(e, k) = WordAt(d, k)
  BY DEF DifferAt
<1>5. c \in Word /\ \A k \in 1 .. N : WordAt(d, k) \in Word
  BY <1>1, WordType
<1> HIDE DEF N, f, g, c
<1> DEFINE S == {k \in Nat : k <= N => g[k] = IF k < p THEN f[k] ELSE checksum_add(f[k], c)}
<1>6. 0 \in S
  BY <1>1, <1>2, <1>3
<1>7. ASSUME NEW k \in Nat, k \in S PROVE k + 1 \in S
  <2> SUFFICES ASSUME k + 1 <= N
               PROVE  g[k + 1] = IF k + 1 < p THEN f[k + 1] ELSE checksum_add(f[k + 1], c)
    OBVIOUS
  <2>1. /\ k \in 0 .. N /\ k + 1 \in 1 .. N /\ (k + 1) - 1 = k
        /\ g[k] = IF k < p THEN f[k] ELSE checksum_add(f[k], c)
    BY <1>1, <1>7
  <2>2. /\ g[k + 1] = checksum_add(g[k], WordAt(e, k + 1))
        /\ f[k + 1] = checksum_add(f[k], WordAt(d, k + 1))
        /\ f[k] \in Word /\ WordAt(d, k + 1) \in Word
    BY <1>2, <1>3, <1>5, <2>1
  <2>3. CASE k + 1 < p
    <3>1. k < p /\ k + 1 # p
      BY <1>1, <2>3
    <3> QED
      BY <1>4, <2>1, <2>2, <2>3, <3>1
  <2>4. CASE k + 1 = p
    <3>1. k < p /\ ~(k + 1 < p)
      BY <1>1, <2>4
    <3>2. f[k + 1] = f[k]
      <4>1. checksum_add(f[k], 0) = IF f[k] + 0 < 65536 THEN f[k] + 0 ELSE f[k] + 0 - 65535
        BY <2>2, <2>4, AddIs
      <4>2. f[k] \in Nat /\ f[k] <= 65535
        BY <2>2 DEF Word
      <4> QED
        BY <2>2, <2>4, <4>1, <4>2
    <3> QED
      BY <2>1, <2>2, <2>4, <3>1, <3>2 DEF c
  <2>5. CASE k + 1 > p
    <3>1. ~(k < p) /\ ~(k + 1 < p) /\ k + 1 # p
      BY <1>1, <2>5
    <3>2. g[k + 1] = checksum_add(checksum_add(f[k], c), WordAt(d, k + 1))
      BY <1>4, <2>1, <2>2, <3>1
    <3>3. g[k + 1] = checksum_add(f[k + 1], c)
      BY <1>5, <2>2, <3>2, AddSwap
    <3> QED
      BY <3>1, <3>3
  <2> QED
    BY <1>1, <2>3, <2>4, <2>5
<1>8. Nat \subseteq S
  <2> HIDE DEF S
  <2> QED
    BY <1>6, <1>7, SetInduction
<1>9. g[N] = checksum_add(f[N], c)
  BY <1>1, <1>8
<1> QED
  BY <1>2, <1>3, <1>9 DEF c

\* A word that is not alike makes a sum that is not alike.
LEMMA SumDamaged ==
  ASSUME NEW s \in Word, NEW d \in Seq(Byte), NEW e \in Seq(Byte), NEW p, DifferAt(d, e, p),
         ~Alike(WordAt(d, p), WordAt(e, p))
  PROVE  ~Alike(add_bytes(s, d), add_bytes(s, e))
<1> DEFINE N == WordCount(d)
           f == SumTo(s, d)
           g == SumTo(s, e)
<1>1. WordCount(e) = N /\ N \in Nat /\ p \in 1 .. N
  BY WordType DEF DifferAt, WordCount
<1>2. /\ f[0] = s /\ \A k \in 0 .. N : f[k] \in Word
      /\ \A k \in 1 .. N : f[k] = checksum_add(f[k - 1], WordAt(d, k))
      /\ add_bytes(s, d) = f[N]
  BY SumIs
<1>3. /\ g[0] = s /\ \A k \in 0 .. N : g[k] \in Word
      /\ \A k \in 1 .. N : g[k] = checksum_add(g[k - 1], WordAt(e, k))
      /\ add_bytes(s, e) = g[N]
  BY <1>1, SumIs
<1>4. \A k \in 1 .. N : k # p => WordAt(e, k) = WordAt(d, k)
  BY DEF DifferAt
<1>5. \A k \in 1 .. N : WordAt(d, k) \in Word /\ WordAt(e, k) \in Word
  BY <1>1, WordType
<1> HIDE DEF N, f, g
<1> DEFINE S == {k \in Nat : k <= N => IF k < p THEN g[k] = f[k] ELSE ~Alike(f[k], g[k])}
<1>6. 0 \in S
  BY <1>1, <1>2, <1>3
<1>7. ASSUME NEW k \in Nat, k \in S PROVE k + 1 \in S
  <2> SUFFICES ASSUME k + 1 <= N
               PROVE  IF k + 1 < p THEN g[k + 1] = f[k + 1] ELSE ~Alike(f[k + 1], g[k + 1])
    OBVIOUS
  <2>1. /\ k \in 0 .. N /\ k + 1 \in 1 .. N /\ (k + 1) - 1 = k
        /\ IF k < p THEN g[k] = f[k] ELSE ~Alike(f[k], g[k])
    BY <1>1, <1>7
  <2>2. /\ g[k + 1] = checksum_add(g[k], WordAt(e, k + 1))
        /\ f[k + 1] = checksum_add(f[k], WordAt(d, k + 1))
        /\ f[k] \in Word /\ g[k] \in Word /\ WordAt(d, k + 1) \in Word /\ WordAt(e, k + 1) \in Word
    BY <1>2, <1>3, <1>5, <2>1
  <2>3. CASE k + 1 < p
    <3>1. k < p /\ k + 1 # p
      BY <1>1, <2>3
    <3> QED
      BY <1>4, <2>1, <2>2, <2>3, <3>1
  <2>4. CASE k + 1 = p
    <3>1. k < p /\ ~(k + 1 < p) /\ g[k] = f[k]
      BY <1>1, <2>1, <2>4
    <3>2. ~Alike(f[k + 1], g[k + 1])
      BY <2>2, <2>4, <3>1, AddAlike
    <3> QED
      BY <3>1, <3>2
  <2>5. CASE k + 1 > p
    <3>1. ~(k < p) /\ ~(k + 1 < p) /\ k + 1 # p
      BY <1>1, <2>5
    <3>2. ~Alike(f[k], g[k]) /\ WordAt(e, k + 1) = WordAt(d, k + 1)
      BY <1>4, <2>1, <3>1
    <3>3. ~Alike(f[k + 1], g[k + 1])
      BY <2>2, <3>2, AddAlike
    <3> QED
      BY <3>1, <3>3
  <2> QED
    BY <1>1, <2>3, <2>4, <2>5
<1>8. Nat \subseteq S
  <2> HIDE DEF S
  <2> QED
    BY <1>6, <1>7, SetInduction
<1>9. ~Alike(f[N], g[N])
  BY <1>1, <1>8
<1> QED
  BY <1>2, <1>3, <1>9

\* What is added before the buffer may be added behind it.
LEMMA SumShift ==
  ASSUME NEW s \in Word, NEW t \in Word, NEW d \in Seq(Byte)
  PROVE  add_bytes(checksum_add(s, t), d) = checksum_add(add_bytes(s, d), t)
<1> DEFINE N == WordCount(d)
           u == checksum_add(s, t)
           f == SumTo(s, d)
           g == SumTo(u, d)
<1>1. N \in Nat /\ u \in Word /\ \A k \in 1 .. N : WordAt(d, k) \in Word
  BY WordType, AddIs
<1>2. /\ f[0] = s /\ \A k \in 0 .. N : f[k] \in Word
      /\ \A k \in 1 .. N : f[k] = checksum_add(f[k - 1], WordAt(d, k))
      /\ add_bytes(s, d) = f[N]
  BY SumIs
<1>3. /\ g[0] = u
      /\ \A k \in 1 .. N : g[k] = checksum_add(g[k - 1], WordAt(d, k))
      /\ add_bytes(u, d) = g[N]
  BY <1>1, SumIs
<1> HIDE DEF N, f, g
<1> DEFINE S == {k \in Nat : k <= N => g[k] = checksum_add(f[k], t)}
<1>4. 0 \in S
  BY <1>2, <1>3
<1>5. ASSUME NEW k \in Nat, k \in S PROVE k + 1 \in S
  <2> SUFFICES ASSUME k + 1 <= N PROVE g[k + 1] = checksum_add(f[k + 1], t)
    OBVIOUS
  <2>1. k \in 0 .. N /\ k + 1 \in 1 .. N /\ (k + 1) - 1 = k /\ g[k] = checksum_add(f[k], t)
    BY <1>1, <1>5
  <2>2. /\ g[k + 1] = checksum_add(g[k], WordAt(d, k + 1))
        /\ f[k + 1] = checksum_add(f[k], WordAt(d, k + 1))
        /\ f[k] \in Word /\ WordAt(d, k + 1) \in Word
    BY <1>1, <1>2, <1>3, <2>1
  <2> QED
    BY <2>1, <2>2, AddSwap
<1>6. Nat \subseteq S
  <2> HIDE DEF S
  <2> QED
    BY <1>4, <1>5, SetInduction
<1>7. g[N] = checksum_add(f[N], t)
  BY <1>1, <1>6
<1> QED
  BY <1>2, <1>3, <1>7

\* The sum of two buffers, one behind the other, when the first has whole words.
LEMMA SumConcat ==
  ASSUME NEW s \in Word, NEW d \in Seq(Byte), NEW a \in Seq(Byte), NEW b \in Seq(Byte),
         Len(a) % 2 = 0, Occurs(d, 0, a), Occurs(d, Len(a), b), Len(d) = Len(a) + Len(b)
  PROVE  add_bytes(s, d) = add_bytes(add_bytes(s, a), b)
<1> DEFINE N == WordCount(d)
           A == WordCount(a)
           B == WordCount(b)
           t == add_bytes(s, a)
           f == SumTo(s, d)
           g == SumTo(s, a)
           h == SumTo(t, b)
<1>1. /\ Len(a) \in Nat /\ Len(b) \in Nat /\ Len(d) \in Nat /\ A \in Nat /\ B \in Nat
      /\ Len(a) = 2 * A /\ B = (Len(b) + 1) \div 2 /\ N = (Len(d) + 1) \div 2
  BY WordType DEF WordCount
<1>2. N = A + B
  <2> HIDE DEF N, A, B
  <2> DEFINE n == Len(b)
             x == Len(d)
  <2>1. n \in Nat /\ x = 2 * A + n /\ A \in Nat /\ B = (n + 1) \div 2 /\ N = (x + 1) \div 2
    BY <1>1
  <2> HIDE DEF n, x
  <2>2. N = ((n + 1) + 2 * A) \div 2
    BY <2>1
  <2>3. ((n + 1) + 2 * A) \div 2 = ((n + 1) \div 2) + A
    BY <2>1
  <2> QED
    BY <2>1, <2>2, <2>3
<1>3. /\ g[0] = s /\ t = g[A] /\ \A k \in 0 .. A : g[k] \in Word
      /\ \A k \in 1 .. A : g[k] = checksum_add(g[k - 1], WordAt(a, k))
  BY SumIs
<1>4. t \in Word
  <2> HIDE DEF A, g
  <2> QED
    BY <1>1, <1>3
<1>5. /\ f[0] = s /\ add_bytes(s, d) = f[N]
      /\ \A k \in 1 .. N : f[k] = checksum_add(f[k - 1], WordAt(d, k))
  BY SumIs
<1>6. /\ h[0] = t /\ add_bytes(t, b) = h[B]
      /\ \A k \in 1 .. B : h[k] = checksum_add(h[k - 1], WordAt(b, k))
  BY <1>4, SumIs
<1>7. /\ \A j \in 1 .. Len(a) : d[j] = a[j]
      /\ \A j \in 1 .. Len(b) : d[Len(a) + j] = b[j]
  BY DEF Occurs
<1> HIDE DEF N, A, B, f, g, h, t
<1>8. \A k \in 1 .. A : WordAt(d, k) = WordAt(a, k)
  <2> SUFFICES ASSUME NEW k \in 1 .. A PROVE WordAt(d, k) = WordAt(a, k)
    OBVIOUS
  <2>1. /\ 2 * k <= Len(d) /\ 2 * k <= Len(a)
        /\ 2 * (k - 1) + 1 \in 1 .. Len(a) /\ 2 * (k - 1) + 2 \in 1 .. Len(a)
    BY <1>1
  <2>2. d[2 * (k - 1) + 1] = a[2 * (k - 1) + 1] /\ d[2 * (k - 1) + 2] = a[2 * (k - 1) + 2]
    BY <1>7, <2>1
  <2> QED
    BY <2>1, <2>2 DEF WordAt, read_u16_be
<1>9. \A k \in 1 .. B : WordAt(d, A + k) = WordAt(b, k)
  <2> SUFFICES ASSUME NEW k \in 1 .. B PROVE WordAt(d, A + k) = WordAt(b, k)
    OBVIOUS
  <2>1. CASE 2 * k <= Len(b)
    <3>1. /\ 2 * (A + k) <= Len(d)
          /\ 2 * (k - 1) + 1 \in 1 .. Len(b) /\ 2 * (k - 1) + 2 \in 1 .. Len(b)
          /\ 2 * ((A + k) - 1) + 1 = Len(a) + (2 * (k - 1) + 1)
          /\ 2 * ((A + k) - 1) + 2 = Len(a) + (2 * (k - 1) + 2)
      BY <1>1, <2>1
    <3>2. /\ d[Len(a) + (2 * (k - 1) + 1)] = b[2 * (k - 1) + 1]
          /\ d[Len(a) + (2 * (k - 1) + 2)] = b[2 * (k - 1) + 2]
      BY <1>7, <3>1
    <3>3. /\ d[2 * ((A + k) - 1) + 1] = b[2 * (k - 1) + 1]
          /\ d[2 * ((A + k) - 1) + 2] = b[2 * (k - 1) + 2]
      BY <3>1, <3>2
    <3> QED
      BY <2>1, <3>1, <3>3 DEF WordAt, read_u16_be
  <2>2. CASE ~(2 * k <= Len(b))
    <3>1. ~(2 * (A + k) <= Len(d)) /\ Len(b) \in 1 .. Len(b) /\ Len(d) = Len(a) + Len(b)
      BY <1>1, <2>2
    <3>2. d[Len(d)] = b[Len(b)]
      BY <1>7, <3>1, Zenon
    <3> QED
      BY <2>2, <3>1, <3>2 DEF WordAt
  <2> QED
    BY <2>1, <2>2
<1> DEFINE S == {k \in Nat : /\ k <= A => f[k] = g[k]
                             /\ k <= B /\ f[A] = t => f[A + k] = h[k]}
<1>10. 0 \in S
  BY <1>1, <1>3, <1>5, <1>6
<1>11. ASSUME NEW k \in Nat, k \in S PROVE k + 1 \in S
  <2>1. ASSUME k + 1 <= A PROVE f[k + 1] = g[k + 1]
    <3>1. k + 1 \in 1 .. A /\ k + 1 \in 1 .. N /\ (k + 1) - 1 = k /\ f[k] = g[k]
      BY <1>1, <1>2, <1>11, <2>1
    <3> QED
      BY <1>3, <1>5, <1>8, <3>1
  <2>2. ASSUME k + 1 <= B, f[A] = t PROVE f[A + (k + 1)] = h[k + 1]
    <3>1. /\ k + 1 \in 1 .. B /\ A + (k + 1) \in 1 .. N /\ (k + 1) - 1 = k
          /\ (A + (k + 1)) - 1 = A + k /\ f[A + k] = h[k]
      BY <1>1, <1>2, <1>11, <2>2
    <3>2. f[A + (k + 1)] = checksum_add(h[k], WordAt(b, k + 1))
      BY <1>5, <1>9, <3>1
    <3>3. h[k + 1] = checksum_add(h[k], WordAt(b, k + 1))
      BY <1>6, <3>1
    <3> QED
      BY <3>2, <3>3
  <2> QED
    BY <2>1, <2>2
<1>12. Nat \subseteq S
  <2> HIDE DEF S
  <2> QED
    BY <1>10, <1>11, SetInduction
<1>13. f[A] = t
  BY <1>1, <1>3, <1>12
<1>14. f[A + B] = h[B]
  BY <1>1, <1>12, <1>13
<1> QED
  BY <1>2, <1>5, <1>6, <1>14 DEF t

(***************************************************************************)
(* Bytes and words in a buffer.                                            *)
(***************************************************************************)
\* Two buffers that differ in one byte.
ChangedAt(d, e, i) ==
  /\ Len(e) = Len(d) /\ i \in 1 .. Len(d) /\ e[i] # d[i]
  /\ \A j \in 1 .. Len(d) : j # i => e[j] = d[j]

\* They differ in one word, and one byte does not make the words 0 and 65535.
LEMMA ByteChanged ==
  ASSUME NEW d \in Seq(Byte), NEW e \in Seq(Byte), NEW i, ChangedAt(d, e, i)
  PROVE  \E p : DifferAt(d, e, p) /\ ~Alike(WordAt(d, p), WordAt(e, p))
<1> DEFINE n == Len(d)
           N == WordCount(d)
           p == (i + 1) \div 2
<1>1. /\ n \in Nat /\ N \in Nat /\ N = (n + 1) \div 2 /\ i \in 1 .. n
      /\ Len(e) = n /\ e[i] # d[i] /\ \A j \in 1 .. n : j # i => e[j] = d[j]
      /\ \A j \in 1 .. n : d[j] \in Nat /\ d[j] <= 255 /\ e[j] \in Nat /\ e[j] <= 255
  BY WordType, BytesOf DEF ChangedAt, WordCount
<1> HIDE DEF n, N
<1>2. p \in 1 .. N /\ (i = 2 * p \/ i = 2 * p - 1)
  BY <1>1
<1> HIDE DEF p
<1>3. ASSUME NEW k \in 1 .. N, k # p PROVE WordAt(e, k) = WordAt(d, k)
  <2>1. CASE 2 * k <= n
    <3>1. /\ 2 * (k - 1) + 1 \in 1 .. n /\ 2 * (k - 1) + 1 # i
          /\ 2 * (k - 1) + 2 \in 1 .. n /\ 2 * (k - 1) + 2 # i
      BY <1>1, <1>2, <1>3, <2>1
    <3>2. e[2 * (k - 1) + 1] = d[2 * (k - 1) + 1] /\ e[2 * (k - 1) + 2] = d[2 * (k - 1) + 2]
      BY <1>1, <3>1
    <3> QED
      BY <1>1, <2>1, <3>2 DEF WordAt, read_u16_be, n
  <2>2. CASE ~(2 * k <= n)
    <3>1. n \in 1 .. n /\ n # i
      BY <1>1, <1>2, <1>3, <2>2
    <3>2. e[n] = d[n]
      BY <1>1, <3>1
    <3> QED
      BY <1>1, <2>2, <3>2 DEF WordAt, n
  <2> QED
    BY <2>1, <2>2
<1>4. ~Alike(WordAt(d, p), WordAt(e, p))
  <2>1. CASE 2 * p <= n
    <3> DEFINE a == d[2 * (p - 1) + 1]
               b == d[2 * (p - 1) + 2]
               x == e[2 * (p - 1) + 1]
               y == e[2 * (p - 1) + 2]
    <3>1. 2 * (p - 1) + 1 \in 1 .. n /\ 2 * (p - 1) + 2 \in 1 .. n
      BY <1>1, <1>2, <2>1
    <3>2. (i = 2 * (p - 1) + 1 /\ i # 2 * (p - 1) + 2) \/ (i = 2 * (p - 1) + 2 /\ i # 2 * (p - 1) + 1)
      BY <1>1, <1>2
    <3>3. (x # a /\ y = b) \/ (x = a /\ y # b)
      BY <1>1, <3>1, <3>2
    <3>4. /\ a \in Nat /\ a <= 255 /\ b \in Nat /\ b <= 255
          /\ x \in Nat /\ x <= 255 /\ y \in Nat /\ y <= 255
      BY <1>1, <3>1
    <3>5. WordAt(d, p) = a * 256 + b /\ WordAt(e, p) = x * 256 + y
      BY <1>1, <2>1 DEF WordAt, read_u16_be, n
    <3> HIDE DEF a, b, x, y
    <3>6. /\ a * 256 + b # x * 256 + y
          /\ ~(a * 256 + b = 0 /\ x * 256 + y = 65535) /\ ~(a * 256 + b = 65535 /\ x * 256 + y = 0)
      BY <3>3, <3>4
    <3> QED
      BY <3>5, <3>6 DEF Alike
  <2>2. CASE ~(2 * p <= n)
    <3> DEFINE a == d[n]
               x == e[n]
    <3>1. n \in 1 .. n /\ n = i
      BY <1>1, <1>2, <2>2
    <3>2. a \in Nat /\ a <= 255 /\ x \in Nat /\ x <= 255 /\ a # x
      BY <1>1, <3>1
    <3>3. WordAt(d, p) = a * 256 /\ WordAt(e, p) = x * 256
      BY <1>1, <2>2 DEF WordAt, n
    <3> HIDE DEF a, x
    <3>4. a * 256 # x * 256 /\ a * 256 # 65535 /\ x * 256 # 65535
      BY <3>2
    <3> QED
      BY <3>3, <3>4 DEF Alike
  <2> QED
    BY <2>1, <2>2
<1>5. DifferAt(d, e, p)
  BY <1>1, <1>2, <1>3 DEF DifferAt, n, N
<1> QED
  BY <1>4, <1>5

\* A changed byte changes the sum.
LEMMA SumChanged ==
  ASSUME NEW s \in Word, NEW d \in Seq(Byte), NEW e \in Seq(Byte), NEW i, ChangedAt(d, e, i)
  PROVE  ~Alike(add_bytes(s, d), add_bytes(s, e))
BY ByteChanged, SumDamaged

\* A word as two bytes.
LEMMA WordWritten ==
  ASSUME NEW v \in Word
  PROVE  /\ write_u16_be(v) \in Seq(Byte) /\ Len(write_u16_be(v)) = 2
         /\ write_u16_be(v)[1] = v \div 256 /\ write_u16_be(v)[2] = v % 256
         /\ v \div 256 \in Byte /\ v % 256 \in Byte
         /\ (v \div 256) * 256 + (v % 256) = v
<1>1. v \in Nat /\ v <= 65535
  BY DEF Word
<1> DEFINE a == v \div 256
           b == v % 256
<1>2. a \in Nat /\ a <= 255 /\ b \in Nat /\ b <= 255 /\ a * 256 + b = v
  BY <1>1
<1> HIDE DEF a, b
<1>3. a \in Byte /\ b \in Byte
  BY <1>2, ByteIs
<1>4. <<a, b>> \in Seq(Byte) /\ Len(<<a, b>>) = 2 /\ <<a, b>>[1] = a /\ <<a, b>>[2] = b
  BY <1>3
<1>5. write_u16_be(v) = <<a, b>>
  BY DEF write_u16_be, a, b
<1> QED
  BY <1>2, <1>3, <1>4, <1>5 DEF a, b

\* Its length.
LEMMA WordBytes ==
  ASSUME NEW v \in Word
  PROVE  write_u16_be(v) \in Seq(Byte) /\ Len(write_u16_be(v)) = 2
BY WordWritten

\* It is read where it was written.
LEMMA WordRead ==
  ASSUME NEW v \in Word, NEW z, NEW o \in Nat, Occurs(z, o, write_u16_be(v))
  PROVE  read_u16_be(z, o) = v
<1>1. z[o + 1] = v \div 256 /\ z[o + 2] = v % 256
  <2>1. 1 \in 1 .. Len(write_u16_be(v)) /\ 2 \in 1 .. Len(write_u16_be(v))
    BY WordWritten
  <2>2. z[o + 1] = write_u16_be(v)[1] /\ z[o + 2] = write_u16_be(v)[2]
    BY <2>1 DEF Occurs
  <2> QED
    BY <2>2, WordWritten
<1>2. read_u16_be(z, o) = (v \div 256) * 256 + (v % 256)
  BY <1>1 DEF read_u16_be
<1> QED
  BY <1>1, <1>2, WordWritten

\* A part of a buffer.
LEMMA SliceIs ==
  ASSUME NEW d \in Seq(Byte), NEW o \in Nat, NEW n \in Nat, o + n <= Len(d)
  PROVE  /\ Slice(d, o, n) \in Seq(Byte) /\ Len(Slice(d, o, n)) = n
         /\ \A j \in 1 .. n : Slice(d, o, n)[j] = d[o + j]
         /\ Occurs(d, o, Slice(d, o, n))
<1> DEFINE t == SubSeq(d, o + 1, o + n)
<1>1. \A k \in (o + 1) .. (o + n) : d[k] \in Byte
  BY BytesOf
<1>2. /\ t \in Seq(Byte)
      /\ Len(t) = IF o + 1 <= o + n THEN (o + n) - (o + 1) + 1 ELSE 0
      /\ \A k \in 1 .. ((o + n) - (o + 1) + 1) : t[k] = d[(o + 1) + k - 1]
  BY <1>1, SubSeqProperties
<1> HIDE DEF t
<1>3. Len(t) = n
  BY <1>2
<1>4. \A j \in 1 .. n : t[j] = d[o + j]
  <2> SUFFICES ASSUME NEW j \in 1 .. n PROVE t[j] = d[o + j]
    OBVIOUS
  <2>1. j \in 1 .. ((o + n) - (o + 1) + 1) /\ (o + 1) + j - 1 = o + j
    OBVIOUS
  <2> QED
    BY <1>2, <2>1
<1>5. Occurs(d, o, t)
  BY <1>3, <1>4 DEF Occurs
<1>6. Slice(d, o, n) = t
  BY DEF Slice, t
<1> QED
  BY <1>2, <1>3, <1>4, <1>5, <1>6

\* What lies there is that part.
LEMMA SliceOf ==
  ASSUME NEW d \in Seq(Byte), NEW t \in Seq(Byte), NEW o, Occurs(d, o, t)
  PROVE  Slice(d, o, Len(t)) = t
<1>1. o \in Nat /\ Len(t) \in Nat /\ o + Len(t) <= Len(d) /\ \A j \in 1 .. Len(t) : d[o + j] = t[j]
  BY DEF Occurs
<1>2. /\ Slice(d, o, Len(t)) \in Seq(Byte) /\ Len(Slice(d, o, Len(t))) = Len(t)
      /\ \A j \in 1 .. Len(t) : Slice(d, o, Len(t))[j] = d[o + j]
  BY <1>1, SliceIs
<1>3. \A j \in 1 .. Len(t) : Slice(d, o, Len(t))[j] = t[j]
  BY <1>1, <1>2
<1> QED
  BY <1>2, <1>3, SeqEqual

\* The rest of a buffer is a part of it.
LEMMA FromIs ==
  ASSUME NEW d \in Seq(Byte), NEW o \in Nat, o <= Len(d)
  PROVE  /\ From(d, o) = Slice(d, o, Len(d) - o) /\ Len(d) - o \in Nat
         /\ From(d, o) \in Seq(Byte) /\ Len(From(d, o)) = Len(d) - o
         /\ \A j \in 1 .. (Len(d) - o) : From(d, o)[j] = d[o + j]
         /\ Occurs(d, o, From(d, o))
<1>1. Len(d) \in Nat /\ Len(d) - o \in Nat /\ o + (Len(d) - o) = Len(d)
  OBVIOUS
<1>2. From(d, o) = Slice(d, o, Len(d) - o)
  BY <1>1 DEF From, Slice
<1> DEFINE n == Len(d) - o
<1>3. n \in Nat /\ o + n <= Len(d)
  BY <1>1
<1> HIDE DEF n
<1>4. /\ Slice(d, o, n) \in Seq(Byte) /\ Len(Slice(d, o, n)) = n
      /\ \A j \in 1 .. n : Slice(d, o, n)[j] = d[o + j]
      /\ Occurs(d, o, Slice(d, o, n))
  BY <1>3, SliceIs
<1> QED
  BY <1>1, <1>2, <1>4 DEF n

\* What lies in a buffer lies in the part around it.
LEMMA OccursWithin ==
  ASSUME NEW d, NEW t, NEW u, NEW o \in Nat, NEW p \in Nat,
         Len(t) \in Nat, Len(u) \in Nat,
         Occurs(d, o, t), Occurs(d, o + p, u), p + Len(u) <= Len(t)
  PROVE  Occurs(t, p, u)
<1>1. /\ \A j \in 1 .. Len(t) : d[o + j] = t[j]
      /\ \A j \in 1 .. Len(u) : d[(o + p) + j] = u[j]
  BY DEF Occurs
<1>2. ASSUME NEW j \in 1 .. Len(u) PROVE t[p + j] = u[j]
  <2>1. p + j \in 1 .. Len(t) /\ o + (p + j) = (o + p) + j
    OBVIOUS
  <2>2. d[o + (p + j)] = t[p + j]
    BY <1>1, <2>1
  <2> QED
    BY <1>1, <2>1, <2>2
<1> QED
  BY <1>2 DEF Occurs

\* Four parts, one behind the other.
Cat4(a, b, c, e) == a \o b \o c \o e

\* Where they lie.
FourAt(z, a, b, c, e) ==
  /\ z \in Seq(Byte) /\ Len(z) = Len(a) + Len(b) + Len(c) + Len(e)
  /\ Occurs(z, 0, a) /\ Occurs(z, Len(a), b)
  /\ Occurs(z, Len(a) + Len(b), c) /\ Occurs(z, Len(a) + Len(b) + Len(c), e)

\* They lie there.
LEMMA FourJoined ==
  ASSUME NEW a \in Seq(Byte), NEW b \in Seq(Byte), NEW c \in Seq(Byte), NEW e \in Seq(Byte)
  PROVE  FourAt(Cat4(a, b, c, e), a, b, c, e)
<1> DEFINE z == Cat4(a, b, c, e)
<1> DEFINE x == a \o b
           y == x \o c
<1>1. /\ x \in Seq(Byte) /\ Len(x) = Len(a) + Len(b) /\ Occurs(x, 0, a) /\ Occurs(x, Len(a), b)
  BY Joined
<1> HIDE DEF x
<1>2. /\ y \in Seq(Byte) /\ Len(y) = Len(x) + Len(c) /\ Occurs(y, Len(x), c)
      /\ \A t \in Seq(Byte) : \A o : Occurs(x, o, t) => Occurs(y, o, t)
  BY <1>1, Joined
<1> HIDE DEF y
<1>3. z = y \o e
  BY DEF x, y, z, Cat4
<1> HIDE DEF z
<1>4. /\ z \in Seq(Byte) /\ Len(z) = Len(y) + Len(e) /\ Occurs(z, Len(y), e)
      /\ \A t \in Seq(Byte) : \A o : Occurs(y, o, t) => Occurs(z, o, t)
  <2>1. /\ y \o e \in Seq(Byte) /\ Len(y \o e) = Len(y) + Len(e) /\ Occurs(y \o e, Len(y), e)
        /\ \A t \in Seq(Byte) : \A o : Occurs(y, o, t) => Occurs(y \o e, o, t)
    BY <1>2, Joined
  <2> QED
    BY <1>3, <2>1, Zenon
<1>5. Occurs(z, 0, a) /\ Occurs(z, Len(a), b) /\ Occurs(z, Len(x), c)
  BY <1>1, <1>2, <1>4
<1>6. /\ Len(z) = Len(a) + Len(b) + Len(c) + Len(e) /\ Occurs(z, Len(a) + Len(b), c)
      /\ Occurs(z, Len(a) + Len(b) + Len(c), e)
  BY <1>1, <1>2, <1>4, <1>5
<1> QED
  BY <1>4, <1>5, <1>6 DEF z, FourAt

(***************************************************************************)
(* A checksum is written over the zeros it was computed with.              *)
(***************************************************************************)
\* The buffer e is z with the word c at o, where z has a zero.
WrittenAt(z, e, o, c) ==
  /\ Len(e) = Len(z) /\ o \in Nat /\ o % 2 = 0 /\ o + 2 <= Len(z)
  /\ read_u16_be(z, o) = 0 /\ read_u16_be(e, o) = c
  /\ \A j \in 1 .. Len(z) : j # o + 1 /\ j # o + 2 => e[j] = z[j]

\* A sum is a word.
LEMMA SumType ==
  ASSUME NEW s \in Word, NEW d \in Seq(Byte)
  PROVE  add_bytes(s, d) \in Word
<1>1. WordCount(d) \in Nat
  BY WordType
<1>2. WordCount(d) \in 0 .. WordCount(d)
  BY <1>1
<1> QED
  BY <1>2, SumIs

\* The word is added to the sum.
LEMMA SumWritten ==
  ASSUME NEW s \in Word, NEW z \in Seq(Byte), NEW e \in Seq(Byte), NEW o, NEW c,
         WrittenAt(z, e, o, c)
  PROVE  c \in Word /\ add_bytes(s, e) = checksum_add(add_bytes(s, z), c)
<1> DEFINE n == Len(z)
           N == WordCount(z)
           p == (o \div 2) + 1
<1>1. /\ n \in Nat /\ N \in Nat /\ N = (n + 1) \div 2 /\ o \in Nat /\ o % 2 = 0 /\ o + 2 <= n
      /\ Len(e) = n /\ read_u16_be(z, o) = 0 /\ read_u16_be(e, o) = c
      /\ \A j \in 1 .. n : j # o + 1 /\ j # o + 2 => e[j] = z[j]
  BY WordType DEF WrittenAt, WordCount
<1> HIDE DEF n, N
<1>2. p \in 1 .. N /\ o = 2 * (p - 1) /\ 2 * p <= n
  BY <1>1
<1> HIDE DEF p
<1>3. WordAt(z, p) = 0 /\ WordAt(e, p) = c
  BY <1>1, <1>2 DEF WordAt, n
<1>4. ASSUME NEW k \in 1 .. N, k # p PROVE WordAt(e, k) = WordAt(z, k)
  <2>1. CASE 2 * k <= n
    <3>1. /\ 2 * (k - 1) + 1 \in 1 .. n /\ 2 * (k - 1) + 1 # o + 1 /\ 2 * (k - 1) + 1 # o + 2
          /\ 2 * (k - 1) + 2 \in 1 .. n /\ 2 * (k - 1) + 2 # o + 1 /\ 2 * (k - 1) + 2 # o + 2
      BY <1>1, <1>2, <1>4, <2>1
    <3>2. e[2 * (k - 1) + 1] = z[2 * (k - 1) + 1] /\ e[2 * (k - 1) + 2] = z[2 * (k - 1) + 2]
      BY <1>1, <3>1
    <3> QED
      BY <1>1, <2>1, <3>2 DEF WordAt, read_u16_be, n
  <2>2. CASE ~(2 * k <= n)
    <3>1. n \in 1 .. n /\ n # o + 1 /\ n # o + 2
      BY <1>1, <1>2, <1>4, <2>2
    <3>2. e[n] = z[n]
      BY <1>1, <3>1
    <3> QED
      BY <1>1, <2>2, <3>2 DEF WordAt, n
  <2> QED
    BY <2>1, <2>2
<1>5. DifferAt(z, e, p)
  BY <1>1, <1>2, <1>4 DEF DifferAt, n, N
<1>6. c \in Word
  <2>1. WordCount(e) = N
    BY <1>1 DEF WordCount, N, n
  <2> QED
    BY <1>2, <1>3, <2>1, WordType
<1> QED
  BY <1>3, <1>5, <1>6, SumPatched

\* A sum and its checksum make 65535, whichever zero is written.
LEMMA FinishSeals ==
  ASSUME NEW s \in Word
  PROVE  /\ checksum_finish(s) \in Word /\ checksum_add(s, checksum_finish(s)) = 65535
         /\ checksum_finish(s) = 0 => checksum_add(s, 65535) = 65535
         /\ checksum_finish(s) = 0 <=> s = 65535
<1>1. s \in Nat /\ s <= 65535
  BY DEF Word
<1>2. checksum_finish(s) = 65535 - s
  BY FinishIs
<1>3. 65535 - s \in Word /\ 65535 \in Word
  BY <1>1 DEF Word
<1>4. checksum_add(s, 65535 - s) = IF s + (65535 - s) < 65536 THEN s + (65535 - s) ELSE s + (65535 - s) - 65535
  BY <1>3, AddIs
<1>5. checksum_add(s, 65535) = IF s + 65535 < 65536 THEN s + 65535 ELSE s + 65535 - 65535
  BY <1>3, AddIs
<1> QED
  BY <1>1, <1>2, <1>3, <1>4, <1>5

\* What Patch does.
LEMMA PatchIs ==
  ASSUME NEW z \in Seq(Byte), NEW o \in Nat, NEW v \in Word, o + 2 <= Len(z)
  PROVE  /\ Patch(z, o, v) \in Seq(Byte) /\ Len(Patch(z, o, v)) = Len(z)
         /\ read_u16_be(Patch(z, o, v), o) = v
         /\ \A j \in 1 .. Len(z) : j # o + 1 /\ j # o + 2 => Patch(z, o, v)[j] = z[j]
<1> DEFINE a == v \div 256
           b == v % 256
           n == Len(z)
           e == [z EXCEPT ![o + 1] = a, ![o + 2] = b]
<1>1. a \in Byte /\ b \in Byte /\ a * 256 + b = v
  BY WordWritten
<1>2. n \in Nat /\ z \in [1 .. n -> Byte]
  BY SeqIsFunction
<1> HIDE DEF a, b, n
<1>3. o + 1 \in 1 .. n /\ o + 2 \in 1 .. n /\ o + 1 # o + 2
  BY <1>2 DEF n
<1>4. e \in [1 .. n -> Byte] /\ e[o + 1] = a /\ e[o + 2] = b
  BY <1>1, <1>2, <1>3
<1>5. \A j \in 1 .. n : j # o + 1 /\ j # o + 2 => e[j] = z[j]
  BY <1>2, <1>3
<1> HIDE DEF e
<1>6. e \in Seq(Byte) /\ Len(e) = n
  BY <1>2, <1>4
<1>7. read_u16_be(e, o) = v
  BY <1>1, <1>4 DEF read_u16_be
<1>8. Patch(z, o, v) = e
  BY DEF Patch, e, a, b
<1> QED
  BY <1>5, <1>6, <1>7, <1>8 DEF n

\* The other parts stay where they are.
LEMMA OthersStay ==
  ASSUME NEW z, NEW e, NEW o, NEW c, NEW p, NEW t, Len(z) \in Nat, Len(t) \in Nat,
         WrittenAt(z, e, o, c), Occurs(z, p, t), p + Len(t) <= o \/ o + 2 <= p
  PROVE  Occurs(e, p, t)
<1>1. /\ Len(e) = Len(z) /\ o \in Nat /\ p \in Nat /\ p + Len(t) <= Len(z)
      /\ \A j \in 1 .. Len(z) : j # o + 1 /\ j # o + 2 => e[j] = z[j]
      /\ \A j \in 1 .. Len(t) : z[p + j] = t[j]
  BY DEF WrittenAt, Occurs
<1>2. ASSUME NEW j \in 1 .. Len(t) PROVE e[p + j] = t[j]
  <2>1. p + j \in 1 .. Len(z) /\ p + j # o + 1 /\ p + j # o + 2
    BY <1>1
  <2> QED
    BY <1>1, <2>1
<1> QED
  BY <1>1, <1>2 DEF Occurs

(***************************************************************************)
(* The frame of a packet.                                                  *)
(***************************************************************************)
\* Small numbers are words and bytes.
LEMMA SmallWords ==
  /\ \A n \in Nat : n <= 65535 => n \in Word /\ u16(n) = n
  /\ \A w \in Word : w \in Nat /\ w <= 65535
  /\ \A n \in Nat : n <= 255 => n \in Byte
  /\ <<>> \in Seq(Byte) /\ Len(<<>>) = 0
<1>1. \A n \in Nat : n <= 65535 => n % 65536 = n
  OBVIOUS
<1> QED
  BY <1>1, ByteIs DEF Word, u16

\* What the header of a packet with n bytes of payload holds.
Header(H, from, to, pr, n) ==
  /\ H \in Seq(Byte) /\ Len(H) = 20 /\ H[1] = 69 /\ H[2] = 0 /\ read_u16_be(H, 2) = 20 + n
  /\ H[10] = pr /\ Occurs(H, 12, from) /\ Occurs(H, 16, to)

\* A packet as ipv4_build makes it.
Plain(p) ==
  /\ p.version = 4 /\ p.ihl = 5 /\ p.dscp = 0 /\ p.ecn = 0 /\ p.identification \in Word
  /\ p.flags = 2 /\ p.fragment_offset = 0 /\ p.ttl = 64 /\ p.protocol \in Byte
  /\ IsIp(p.source_ip) /\ IsIp(p.destination_ip) /\ p.options = <<>>

\* The layout of its header.
LEMMA HeaderIs ==
  ASSUME NEW p, Plain(p), NEW n \in Nat, 20 + n \in Word, NEW c \in Word
  PROVE  /\ Header(Ipv4Header(p, 20 + n, c), p.source_ip, p.destination_ip, p.protocol, n)
         /\ WrittenAt(Ipv4Header(p, 20 + n, 0), Ipv4Header(p, 20 + n, c), 10, c)
<1> DEFINE v == p.version * 16 + (p.ihl % 16)
           u == (p.dscp % 64) * 4 + (p.ecn % 4)
           w == (p.flags % 8) * 8192 + (p.fragment_offset % 8192)
           m == u16(20 + n)
           a == <<v, u>>
           b == write_u16_be(m)
           e == write_u16_be(p.identification)
           f == write_u16_be(w)
           g == <<p.ttl, p.protocol>>
           from == p.source_ip
           to == p.destination_ip
           A == Cat4(a, b, e, f)
           T(x) == write_u16_be(x)
           Q(x) == Cat4(A, g, T(x), from)
           R(x) == Q(x) \o to
           H(x) == R(x) \o p.options
<1>1. /\ v = 69 /\ u = 0 /\ w \in Word /\ m = 20 + n /\ m \in Word /\ 0 \in Word
      /\ v \in Byte /\ u \in Byte /\ p.ttl \in Byte /\ p.protocol \in Byte /\ p.identification \in Word
  <2>1. v = 69 /\ u = 0 /\ w = 16384 /\ p.ttl = 64
    BY DEF Plain
  <2> HIDE DEF v, u, w
  <2> QED
    BY <2>1, SmallWords DEF Plain
<1>2. /\ from \in Seq(Byte) /\ to \in Seq(Byte) /\ Len(from) = 4 /\ Len(to) = 4
      /\ p.options = <<>>
  BY DEF Plain, IsIp, ARP_PROTOCOL_ADDR_LEN
<1> HIDE DEF v, u, w, m, from, to
<1>3. /\ a \in Seq(Byte) /\ Len(a) = 2 /\ a[1] = 69 /\ a[2] = 0
      /\ g \in Seq(Byte) /\ Len(g) = 2 /\ g[2] = p.protocol
  BY <1>1
<1>4. /\ b \in Seq(Byte) /\ Len(b) = 2 /\ e \in Seq(Byte) /\ Len(e) = 2
      /\ f \in Seq(Byte) /\ Len(f) = 2
  BY <1>1, WordBytes, Zenon
<1> HIDE DEF a, e, f, g
<1>5. A \in Seq(Byte) /\ Len(A) = 8 /\ Occurs(A, 0, a) /\ Occurs(A, 2, b)
  <2> HIDE DEF b
  <2>1. /\ A \in Seq(Byte) /\ Len(A) = Len(a) + Len(b) + Len(e) + Len(f)
        /\ Occurs(A, 0, a) /\ Occurs(A, Len(a), b)
    <3>1. FourAt(A, a, b, e, f)
      BY <1>3, <1>4, FourJoined, Zenon
    <3> QED
      BY <3>1, Zenon DEF FourAt
  <2> HIDE DEF A
  <2> QED
    BY <1>3, <1>4, <2>1
<1> HIDE DEF A
<1>6. A[1] = 69 /\ A[2] = 0 /\ read_u16_be(A, 2) = 20 + n
  <2>1. A[0 + 1] = 69 /\ A[0 + 2] = 0
    BY <1>3, <1>5 DEF Occurs
  <2>2. read_u16_be(A, 2) = m
    BY <1>1, <1>5, WordRead
  <2> QED
    BY <1>1, <2>1, <2>2
<1>7. ASSUME NEW x \in Word
      PROVE  /\ H(x) \in Seq(Byte) /\ Len(H(x)) = 20 /\ Occurs(H(x), 0, A) /\ Occurs(H(x), 8, g)
             /\ Occurs(H(x), 10, T(x)) /\ Occurs(H(x), 12, from) /\ Occurs(H(x), 16, to)
  <2>1. T(x) \in Seq(Byte) /\ Len(T(x)) = 2
    BY WordBytes, Zenon
  <2> HIDE DEF T
  <2>2. /\ Q(x) \in Seq(Byte) /\ Len(Q(x)) = Len(A) + Len(g) + Len(T(x)) + Len(from)
        /\ Occurs(Q(x), 0, A) /\ Occurs(Q(x), Len(A), g)
        /\ Occurs(Q(x), Len(A) + Len(g), T(x))
        /\ Occurs(Q(x), Len(A) + Len(g) + Len(T(x)), from)
    <3>1. FourAt(Q(x), A, g, T(x), from)
      BY <1>2, <1>3, <1>5, <2>1, FourJoined, Zenon
    <3> QED
      BY <3>1, Zenon DEF FourAt
  <2> HIDE DEF Q
  <2>3. /\ Len(Q(x)) = 16 /\ Occurs(Q(x), 8, g) /\ Occurs(Q(x), 10, T(x)) /\ Occurs(Q(x), 12, from)
    BY <1>2, <1>3, <1>5, <2>1, <2>2
  <2>4. /\ R(x) \in Seq(Byte) /\ Len(R(x)) = Len(Q(x)) + Len(to) /\ Occurs(R(x), Len(Q(x)), to)
        /\ \A t \in Seq(Byte) : \A o : Occurs(Q(x), o, t) => Occurs(R(x), o, t)
    BY <1>2, <2>2, Joined, Zenon
  <2> HIDE DEF R
  <2>5. H(x) = R(x)
    BY <1>2, <2>4
  <2> HIDE DEF H
  <2>6. Len(R(x)) = 20 /\ Occurs(R(x), 16, to)
    BY <1>2, <2>3, <2>4
  <2>7. /\ Occurs(R(x), 0, A) /\ Occurs(R(x), 8, g) /\ Occurs(R(x), 10, T(x)) /\ Occurs(R(x), 12, from)
    BY <1>2, <1>3, <1>5, <2>1, <2>2, <2>3, <2>4
  <2> QED
    BY <2>4, <2>5, <2>6, <2>7, Zenon
<1>8. \A x \in Word : H(x) \in Seq(Byte) /\ Len(H(x)) = 20 /\ read_u16_be(H(x), 10) = x
  <2> HIDE DEF H
  <2>1. 10 \in Nat
    OBVIOUS
  <2> QED
    BY <1>7, <2>1, WordRead, Zenon
<1> HIDE DEF H, T, Q, R
<1>9. ASSUME NEW x \in Word
      PROVE  /\ \A j \in 1 .. 8 : H(x)[j] = A[j]
             /\ \A j \in 1 .. 2 : H(x)[8 + j] = g[j]
             /\ \A j \in 1 .. 4 : H(x)[12 + j] = from[j]
             /\ \A j \in 1 .. 4 : H(x)[16 + j] = to[j]
  <2>1. /\ \A j \in 1 .. Len(A) : H(x)[0 + j] = A[j]
        /\ \A j \in 1 .. Len(g) : H(x)[8 + j] = g[j]
        /\ \A j \in 1 .. Len(from) : H(x)[12 + j] = from[j]
        /\ \A j \in 1 .. Len(to) : H(x)[16 + j] = to[j]
    BY <1>7 DEF Occurs
  <2> QED
    BY <1>2, <1>3, <1>5, <2>1
<1>10. Header(H(c), from, to, p.protocol, n)
  <2>1. /\ H(c)[1] = A[1] /\ H(c)[2] = A[2] /\ H(c)[3] = A[3] /\ H(c)[4] = A[4]
        /\ H(c)[8 + 2] = g[2]
    BY <1>9
  <2>2. H(c)[1] = 69 /\ H(c)[2] = 0 /\ read_u16_be(H(c), 2) = 20 + n /\ H(c)[10] = p.protocol
    BY <1>3, <1>6, <2>1 DEF read_u16_be
  <2>3. /\ H(c) \in Seq(Byte) /\ Len(H(c)) = 20 /\ Occurs(H(c), 12, from) /\ Occurs(H(c), 16, to)
    BY <1>7
  <2> QED
    BY <2>2, <2>3 DEF Header
<1>11. WrittenAt(H(0), H(c), 10, c)
  <2> DEFINE y == H(c)
             z == H(0)
  <2>1. /\ \A j \in 1 .. 8 : y[j] = A[j] /\ z[j] = A[j]
        /\ \A j \in 1 .. 2 : y[8 + j] = g[j] /\ z[8 + j] = g[j]
        /\ \A j \in 1 .. 4 : y[12 + j] = from[j] /\ z[12 + j] = from[j]
        /\ \A j \in 1 .. 4 : y[16 + j] = to[j] /\ z[16 + j] = to[j]
    BY <1>1, <1>9
  <2>2. Len(y) = 20 /\ Len(z) = 20 /\ read_u16_be(z, 10) = 0 /\ read_u16_be(y, 10) = c
    BY <1>1, <1>8
  <2> HIDE DEF y, z
  <2>3. ASSUME NEW j \in 1 .. 20, j # 11, j # 12 PROVE y[j] = z[j]
    <3>1. CASE j \in 1 .. 8
      BY <2>1, <3>1
    <3>2. CASE j \in 9 .. 10
      <4>1. j - 8 \in 1 .. 2 /\ j = 8 + (j - 8)
        BY <3>2
      <4>2. y[8 + (j - 8)] = z[8 + (j - 8)]
        BY <2>1, <4>1
      <4> QED
        BY <4>1, <4>2
    <3>3. CASE j \in 13 .. 16
      <4>1. j - 12 \in 1 .. 4 /\ j = 12 + (j - 12)
        BY <3>3
      <4>2. y[12 + (j - 12)] = z[12 + (j - 12)]
        BY <2>1, <4>1
      <4> QED
        BY <4>1, <4>2
    <3>4. CASE j \in 17 .. 20
      <4>1. j - 16 \in 1 .. 4 /\ j = 16 + (j - 16)
        BY <3>4
      <4>2. y[16 + (j - 16)] = z[16 + (j - 16)]
        BY <2>1, <4>1
      <4> QED
        BY <4>1, <4>2
    <3> QED
      BY <2>3, <3>1, <3>2, <3>3, <3>4
  <2>4. 10 \in Nat /\ 10 % 2 = 0 /\ 10 + 2 <= 20 /\ 10 + 1 = 11 /\ 10 + 2 = 12
    OBVIOUS
  <2>5. WrittenAt(z, y, 10, c)
    BY <2>2, <2>3, <2>4 DEF WrittenAt
  <2> QED
    BY <2>5 DEF y, z
<1>12. \A x : Ipv4Header(p, 20 + n, x) = H(x)
  BY SMT DEF Ipv4Header, Cat4, H, R, Q, T, A, a, b, e, f, g, m, u, v, w, from, to
<1>13. Ipv4Header(p, 20 + n, c) = H(c) /\ Ipv4Header(p, 20 + n, 0) = H(0)
  BY <1>12
<1> QED
  BY <1>10, <1>11, <1>13 DEF from, to

\* A buffer in which the sum, with what went before, comes out right.
Sealed(s, d) == add_bytes(s, d) = 65535

\* The frame F carries the payload P.
Frames(F, type, P) ==
  /\ F \in Seq(Byte) /\ Len(F) = 14 + Len(P) /\ read_u16_be(F, 12) = type /\ Occurs(F, 14, P)

\* A payload that is not too long is put into a frame.
LEMMA EthernetFrameIs ==
  ASSUME NEW to \in Seq(Byte), Len(to) = 6, NEW type \in Word, NEW P \in Seq(Byte), P # <<>>
  PROVE  /\ Len(P) > EthernetMaxPayload => ethernet_frame(to, type, P) = <<>>
         /\ Len(P) <= EthernetMaxPayload => Frames(ethernet_frame(to, type, P), type, P)
<1> DEFINE from == <<2, 0, 0, 0, 0, 2>>
           r == [destination |-> to, source |-> from, ethertype |-> type, payload |-> P]
           t == write_u16_be(type)
           F == Cat4(to, from, t, P)
<1>1. EthernetMaxPayload \in Nat /\ Len(P) \in Nat
  BY EthernetAssumption
<1>2. from \in Seq(Byte) /\ Len(from) = 6
  <2>1. 0 \in Byte /\ 2 \in Byte
    BY SmallWords
  <2> QED
    BY <2>1
<1> HIDE DEF from
<1>3. r.destination = to /\ r.source = from /\ r.ethertype = type /\ r.payload = P
  OBVIOUS
<1>4. ethernet_frame(to, type, P) = ethernet_serialize(r, ETHERNET_HEADER_LEN + EthernetMaxPayload)
  BY DEF ethernet_frame, from
<1> HIDE DEF r
<1>5. ethernet_serialize(r, ETHERNET_HEADER_LEN + EthernetMaxPayload)
        = IF \/ Len(P) > EthernetMaxPayload
             \/ ETHERNET_HEADER_LEN + EthernetMaxPayload < ETHERNET_HEADER_LEN + Len(P)
          THEN <<>> ELSE F
  BY <1>3, Zenon DEF ethernet_serialize, Cat4
<1>6. t \in Seq(Byte) /\ Len(t) = 2
  BY WordBytes, Zenon
<1>7. Frames(F, type, P)
  <2> HIDE DEF t
  <2>1. FourAt(F, to, from, t, P)
    BY <1>2, <1>6, FourJoined, Zenon
  <2> HIDE DEF F
  <2>2. F \in Seq(Byte) /\ Len(F) = 14 + Len(P) /\ Occurs(F, 12, t) /\ Occurs(F, 14, P)
    BY <1>1, <1>2, <1>6, <2>1 DEF FourAt
  <2>3. read_u16_be(F, 12) = type
    <3>1. 12 \in Nat
      OBVIOUS
    <3> QED
      BY <2>2, <3>1, WordRead, Zenon DEF t
  <2> QED
    BY <2>2, <2>3 DEF Frames
<1> HIDE DEF F, t
<1>8. ETHERNET_HEADER_LEN + EthernetMaxPayload < ETHERNET_HEADER_LEN + Len(P) => Len(P) > EthernetMaxPayload
  BY <1>1 DEF ETHERNET_HEADER_LEN
<1>9. Len(P) <= EthernetMaxPayload => ~(Len(P) > EthernetMaxPayload)
  BY <1>1
<1> QED
  BY <1>4, <1>5, <1>7, <1>8, <1>9, Zenon

\* The frame F carries an IPv4 packet with header H and payload B.
Carries(F, H, B) ==
  /\ F \in Seq(Byte) /\ Len(F) = 34 + Len(B) /\ read_u16_be(F, 12) = ETHERNET_TYPE_IPV4
  /\ Occurs(F, 14, H) /\ Occurs(F, 34, B)

\* The packet in its frame.
LEMMA Ipv4FrameIs ==
  ASSUME NEW m, IsIp(m.from), IsIp(m.to), NEW pr \in Byte, NEW id \in Word,
         NEW B \in Seq(Byte), B # <<>>
  PROVE  /\ 20 + Len(B) > EthernetMaxPayload => ipv4_frame(m, pr, B, id) = <<>>
         /\ 20 + Len(B) <= EthernetMaxPayload =>
              \E H : /\ Header(H, m.from, m.to, pr, Len(B)) /\ Sealed(0, H)
                     /\ Carries(ipv4_frame(m, pr, B, id), H, B)
<1> DEFINE p == ipv4_build(m.from, m.to, pr, B, 64, id)
           F == ipv4_frame(m, pr, B, id)
           n == Len(B)
           S == ipv4_serialize(p, EthernetMaxPayload)
<1>1. /\ EthernetMaxPayload \in Nat /\ MaxPacketLen \in Nat /\ n \in Nat /\ n > 0
      /\ EthernetMaxPayload <= MaxPacketLen
  BY EthernetAssumption, ChecksumAssumption, FramePathAssumption
<1>2. F = IF p.rc # 0 THEN <<>> ELSE ethernet_frame(NextHopMac, ETHERNET_TYPE_IPV4, S)
  BY DEF ipv4_frame
<1>3. CASE n > MaxPacketLen - 20
  <2>1. p = Fail(-1)
    BY <1>3 DEF ipv4_build, IPV4_MAX_PAYLOAD_LEN, IPV4_MIN_HEADER_LEN
  <2>2. p.rc # 0
    BY <2>1 DEF Fail
  <2>3. F = <<>> /\ 20 + n > EthernetMaxPayload
    BY <1>1, <1>2, <1>3, <2>2
  <2> QED
    BY <1>1, <2>3
<1>4. CASE ~(n > MaxPacketLen - 20)
  <2>1. /\ p.rc = 0 /\ p.version = 4 /\ p.ihl = 5 /\ p.dscp = 0 /\ p.ecn = 0
        /\ p.identification = id /\ p.flags = 2 /\ p.fragment_offset = 0 /\ p.ttl = 64
        /\ p.protocol = pr /\ p.source_ip = m.from /\ p.destination_ip = m.to
        /\ p.options = <<>> /\ p.payload = B
    BY <1>4 DEF ipv4_build, IPV4_MAX_PAYLOAD_LEN, IPV4_MIN_HEADER_LEN, IPV4_MIN_IHL, IPV4_FLAG_DF
  <2> HIDE DEF p, F, S
  <2>2. Plain(p)
    BY <2>1 DEF Plain
  <2>3. 20 + n \in Nat /\ 20 + n \in Word /\ 0 \in Word
    BY <1>1, <1>4, ChecksumAssumption DEF Word
  <2> DEFINE Z == Ipv4Header(p, 20 + n, 0)
             c == ipv4_checksum(Z)
             H == Ipv4Header(p, 20 + n, c)
  <2>4. Z \in Seq(Byte)
    BY <1>1, <2>2, <2>3, HeaderIs DEF Header
  <2>5. c \in Word /\ checksum_add(add_bytes(0, Z), c) = 65535
    <3> HIDE DEF Z
    <3>1. add_bytes(0, Z) \in Word /\ c = checksum_finish(add_bytes(0, Z))
      BY <2>3, <2>4, SumType DEF ipv4_checksum
    <3> HIDE DEF c
    <3> QED
      BY <3>1, FinishSeals
  <2>6. Header(H, m.from, m.to, pr, n) /\ WrittenAt(Z, H, 10, c)
    <3> HIDE DEF c
    <3> QED
      BY <1>1, <2>1, <2>2, <2>3, <2>5, HeaderIs
  <2> HIDE DEF Z, c, H
  <2>7. H \in Seq(Byte) /\ Len(H) = 20
    BY <2>6 DEF Header
  <2>8. Sealed(0, H)
    BY <2>3, <2>4, <2>5, <2>6, <2>7, SumWritten DEF Sealed
  <2> DEFINE P == H \o B
  <2>9. /\ P \in Seq(Byte) /\ Len(P) = 20 + n /\ Occurs(P, 0, H) /\ Occurs(P, 20, B)
    BY <2>7, Joined
  <2>10. S = IF 20 + n > EthernetMaxPayload THEN <<>> ELSE P
    <3>1. /\ ~(p.version # 4 \/ p.ihl < IPV4_MIN_IHL \/ p.ihl > 15)
          /\ ~(Len(p.options) # p.ihl * 4 - IPV4_MIN_HEADER_LEN)
          /\ ~(Len(p.payload) > IPV4_MAX_PAYLOAD_LEN)
          /\ p.ihl * 4 + Len(p.payload) = 20 + n
          /\ ~(20 + n > MaxPacketLen)
          /\ (EthernetMaxPayload < 20 + n) <=> (20 + n > EthernetMaxPayload)
      BY <1>1, <1>4, <2>1 DEF IPV4_MIN_IHL, IPV4_MIN_HEADER_LEN, IPV4_MAX_PAYLOAD_LEN
    <3>2. S = IF \/ p.version # 4 \/ p.ihl < IPV4_MIN_IHL \/ p.ihl > 15
                 \/ Len(p.options) # p.ihl * 4 - IPV4_MIN_HEADER_LEN
                 \/ Len(p.payload) > IPV4_MAX_PAYLOAD_LEN
                 \/ 20 + n > MaxPacketLen \/ EthernetMaxPayload < 20 + n
              THEN <<>> ELSE H \o p.payload
      BY <3>1, Zenon DEF S, ipv4_serialize, H, c, Z
    <3> HIDE DEF P
    <3>3. H \o p.payload = P
      BY <2>1, Zenon DEF P
    <3> QED
      BY <3>1, <3>2, <3>3, Zenon
  <2> HIDE DEF P
  <2>11. CASE 20 + n > EthernetMaxPayload
    <3>1. S = <<>>
      BY <2>10, <2>11
    <3>2. ethernet_frame(NextHopMac, ETHERNET_TYPE_IPV4, S) = <<>>
      BY <3>1 DEF ethernet_frame
    <3> QED
      BY <1>1, <1>2, <2>11, <3>2 DEF F
  <2>12. CASE ~(20 + n > EthernetMaxPayload)
    <3>1. S = P /\ P # <<>> /\ Len(P) <= EthernetMaxPayload
      BY <1>1, <2>9, <2>10, <2>12
    <3>2. F = ethernet_frame(NextHopMac, ETHERNET_TYPE_IPV4, P)
      BY <1>2, <2>1, <3>1, Zenon
    <3>3. NextHopMac \in Seq(Byte) /\ Len(NextHopMac) = 6
      <4>1. 0 \in Byte /\ 1 \in Byte /\ 2 \in Byte
        BY SmallWords
      <4> QED
        BY <4>1 DEF NextHopMac
    <3>4. ETHERNET_TYPE_IPV4 \in Word
      BY DEF ETHERNET_TYPE_IPV4, Word
    <3>5. Frames(F, ETHERNET_TYPE_IPV4, P)
      BY <2>9, <3>1, <3>2, <3>3, <3>4, EthernetFrameIs, Zenon
    <3>6. /\ F \in Seq(Byte) /\ Len(F) = 34 + n /\ read_u16_be(F, 12) = ETHERNET_TYPE_IPV4
          /\ Occurs(F, 14, P)
      BY <1>1, <2>9, <3>5 DEF Frames
    <3>7. Occurs(F, 14 + 0, H) /\ Occurs(F, 14 + 20, B)
      <4>1. Len(F) \in Nat /\ Len(P) \in Nat /\ Len(H) \in Nat /\ Len(B) \in Nat
        BY <1>1, <2>7, <2>9, <3>6
      <4> QED
        BY <2>9, <3>6, <4>1, OccursIn, Zenon
    <3>8. Carries(F, H, B)
      BY <3>6, <3>7 DEF Carries
    <3> QED
      BY <1>1, <2>6, <2>8, <2>12, <3>8 DEF F
  <2> QED
    BY <2>11, <2>12
<1> QED
  BY <1>3, <1>4

(***************************************************************************)
(* The packets of TCP, UDP, ICMP and ARP.                                  *)
(***************************************************************************)
\* The start of a start.
LEMMA HeadIn ==
  ASSUME NEW s \in Seq(Byte), NEW t \in Seq(Byte), NEW u \in Seq(Byte), NEW p,
         Occurs(s, 0, t), Occurs(t, p, u)
  PROVE  Occurs(s, p, u)
<1>1. Len(s) \in Nat /\ Len(t) \in Nat /\ Len(u) \in Nat /\ p \in Nat
  BY DEF Occurs
<1>2. Occurs(s, 0 + p, u)
  BY <1>1, OccursIn, Zenon
<1>3. 0 + p = p
  BY <1>1
<1> QED
  BY <1>2, <1>3, Zenon

\* A 32-bit number as four bytes.
LEMMA LongBytes ==
  ASSUME NEW v \in Word \X Word
  PROVE  write_u32_be(v) \in Seq(Byte) /\ Len(write_u32_be(v)) = 4
<1>1. v[1] \in Word /\ v[2] \in Word
  OBVIOUS
<1> DEFINE a == write_u16_be(v[1])
           b == write_u16_be(v[2])
<1>2. a \in Seq(Byte) /\ Len(a) = 2 /\ b \in Seq(Byte) /\ Len(b) = 2
  BY <1>1, WordBytes, Zenon
<1>3. write_u32_be(v) = a \o b
  BY Zenon DEF write_u32_be
<1> HIDE DEF a, b
<1>4. a \o b \in Seq(Byte) /\ Len(a \o b) = 4
  <2>1. a \o b \in Seq(Byte) /\ Len(a \o b) = Len(a) + Len(b)
    BY <1>2, Joined, Zenon
  <2>2. Len(a) + Len(b) = 4
    BY <1>2
  <2> QED
    BY <2>1, <2>2, Zenon
<1> QED
  BY <1>3, <1>4, Zenon

\* It is read where it was written.
LEMMA LongRead ==
  ASSUME NEW v \in Word \X Word, NEW z \in Seq(Byte), NEW o \in Nat, Occurs(z, o, write_u32_be(v))
  PROVE  read_u32_be(z, o) = v
<1>1. v[1] \in Word /\ v[2] \in Word /\ v = <<v[1], v[2]>>
  OBVIOUS
<1> DEFINE a == write_u16_be(v[1])
           b == write_u16_be(v[2])
           w == write_u32_be(v)
<1>2. a \in Seq(Byte) /\ Len(a) = 2 /\ b \in Seq(Byte) /\ Len(b) = 2
  BY <1>1, WordBytes, Zenon
<1>3. w \in Seq(Byte) /\ Occurs(w, 0, a) /\ Occurs(w, 2, b)
  <2>1. w = a \o b
    BY Zenon DEF write_u32_be
  <2> HIDE DEF a, b, w
  <2>2. a \o b \in Seq(Byte) /\ Occurs(a \o b, 0, a) /\ Occurs(a \o b, Len(a), b)
    BY <1>2, Joined, Zenon
  <2> QED
    BY <1>2, <2>1, <2>2, Zenon
<1>4. Occurs(z, o + 0, a) /\ Occurs(z, o + 2, b)
  <2>1. Occurs(z, o, w)
    OBVIOUS
  <2> HIDE DEF a, b, w
  <2>2. Len(z) \in Nat /\ Len(w) \in Nat /\ Len(a) \in Nat /\ Len(b) \in Nat
    BY <1>2, <1>3
  <2> QED
    BY <1>3, <2>1, <2>2, OccursIn, Zenon
<1>5. o + 0 = o /\ o + 2 \in Nat
  OBVIOUS
<1>6. Occurs(z, o, write_u16_be(v[1])) /\ Occurs(z, o + 2, write_u16_be(v[2]))
  BY <1>4, <1>5, Zenon
<1>7. read_u16_be(z, o) = v[1] /\ read_u16_be(z, o + 2) = v[2]
  BY <1>1, <1>5, <1>6, WordRead, Zenon
<1> QED
  BY <1>1, <1>7, Zenon DEF read_u32_be

\* The sum of the pseudo-header without the length.
PseudoBase(from, to, pr) == checksum_add(add_bytes(add_bytes(0, from), to), pr)

\* The pseudo-header's sum.
LEMMA PseudoIs ==
  ASSUME NEW from, NEW to, IsIp(from), IsIp(to), NEW pr \in Word, NEW n \in Word
  PROVE  /\ PseudoBase(from, to, pr) \in Word
         /\ pseudo_header_sum(from, to, pr, n) = checksum_add(PseudoBase(from, to, pr), n)
         /\ pseudo_header_sum(from, to, pr, n) \in Word
<1>1. from \in Seq(Byte) /\ to \in Seq(Byte) /\ 0 \in Word
  BY SmallWords DEF IsIp
<1>2. add_bytes(add_bytes(0, from), to) \in Word
  BY <1>1, SumType
<1>3. PseudoBase(from, to, pr) \in Word
  BY <1>2, AddIs DEF PseudoBase
<1>4. u16(n) = n
  BY SmallWords
<1>5. pseudo_header_sum(from, to, pr, n) = checksum_add(PseudoBase(from, to, pr), n)
  BY <1>4, Zenon DEF pseudo_header_sum, PseudoBase
<1>6. checksum_add(PseudoBase(from, to, pr), n) \in Word
  BY <1>3, AddIs
<1> QED
  BY <1>3, <1>5, <1>6, Zenon

\* What is written is the complement of the sum, and 65535 when that is 0.
LEMMA SealHolds ==
  ASSUME NEW s \in Word, NEW z \in Seq(Byte), NEW o \in Nat, o % 2 = 0, o + 2 <= Len(z),
         read_u16_be(z, o) = 0, NEW c,
         \/ c = checksum_finish(add_bytes(s, z))
         \/ checksum_finish(add_bytes(s, z)) = 0 /\ c = 65535
  PROVE  /\ Patch(z, o, c) \in Seq(Byte) /\ WrittenAt(z, Patch(z, o, c), o, c)
         /\ Sealed(s, Patch(z, o, c))
<1> DEFINE t == add_bytes(s, z)
           e == Patch(z, o, c)
<1>1. t \in Word
  BY SumType
<1> HIDE DEF t
<1>2. c \in Word /\ checksum_add(t, c) = 65535
  <2>1. 65535 \in Word
    BY DEF Word
  <2> QED
    BY <1>1, <2>1, FinishSeals DEF t
<1>3. /\ e \in Seq(Byte) /\ Len(e) = Len(z) /\ read_u16_be(e, o) = c
      /\ \A j \in 1 .. Len(z) : j # o + 1 /\ j # o + 2 => e[j] = z[j]
  BY <1>2, PatchIs, SMTT(30)
<1> HIDE DEF e
<1>4. WrittenAt(z, e, o, c)
  BY <1>3 DEF WrittenAt
<1>5. add_bytes(s, e) = checksum_add(t, c)
  BY <1>3, <1>4, SumWritten DEF t
<1>6. Sealed(s, e)
  BY <1>2, <1>5 DEF Sealed
<1> QED
  BY <1>3, <1>4, <1>6 DEF e

\* Where the fields of a segment lie, the checksum aside.
TcpAt(z, s) ==
  /\ z \in Seq(Byte) /\ Len(z) = 4 * s.data_offset + Len(s.payload)
  /\ Occurs(z, 0, write_u16_be(s.source_port)) /\ Occurs(z, 2, write_u16_be(s.destination_port))
  /\ Occurs(z, 4, write_u32_be(s.sequence_number))
  /\ Occurs(z, 8, write_u32_be(s.acknowledgment_number))
  /\ Occurs(z, 12, <<s.data_offset * 16, s.flags>>) /\ Occurs(z, 14, write_u16_be(s.window_size))
  /\ Occurs(z, 18, write_u16_be(s.urgent_pointer))
  /\ Occurs(z, 20, s.options) /\ Occurs(z, 4 * s.data_offset, s.payload)

\* The types of a segment's fields.
IsTcp(s) == s \in TcpPacket /\ Len(s.options) = 4 * s.data_offset - TCP_MIN_HEADER_LEN

\* A segment as it is written, with a checksum of 0.
LEMMA TcpWritten ==
  ASSUME NEW s, IsTcp(s), s.checksum = 0,
         4 * s.data_offset + Len(s.payload) <= EthernetMaxPayload
  PROVE  TcpAt(tcp_serialize(s, EthernetMaxPayload), s)
         /\ read_u16_be(tcp_serialize(s, EthernetMaxPayload), 16) = 0
<1> DEFINE a == write_u16_be(s.source_port)
           b == write_u16_be(s.destination_port)
           c == write_u32_be(s.sequence_number)
           d == write_u32_be(s.acknowledgment_number)
           e == <<s.data_offset * 16, s.flags>>
           f == write_u16_be(s.window_size)
           g == write_u16_be(s.checksum)
           h == write_u16_be(s.urgent_pointer)
           i == s.options
           k == s.payload
           x == Cat4(a, b, c, d)
           y == Cat4(x, e, f, g)
           z == Cat4(y, h, i, k)
           n == s.data_offset
<1>1. /\ s.source_port \in Word /\ s.destination_port \in Word
      /\ s.sequence_number \in Word \X Word /\ s.acknowledgment_number \in Word \X Word
      /\ n \in Nat /\ 5 <= n /\ n <= 15 /\ s.flags \in Byte /\ s.window_size \in Word
      /\ s.checksum \in Word /\ s.urgent_pointer \in Word /\ i \in Seq(Byte) /\ k \in Seq(Byte)
      /\ Len(i) = 4 * n - 20
  BY DEF IsTcp, TcpPacket, TCP_MIN_HEADER_LEN
<1>2. /\ a \in Seq(Byte) /\ Len(a) = 2 /\ b \in Seq(Byte) /\ Len(b) = 2
      /\ f \in Seq(Byte) /\ Len(f) = 2 /\ g \in Seq(Byte) /\ Len(g) = 2
      /\ h \in Seq(Byte) /\ Len(h) = 2
  BY <1>1, WordBytes, Zenon
<1>3. c \in Seq(Byte) /\ Len(c) = 4 /\ d \in Seq(Byte) /\ Len(d) = 4
  BY <1>1, LongBytes, Zenon
<1>4. e \in Seq(Byte) /\ Len(e) = 2
  <2>1. n * 16 \in Nat /\ n * 16 <= 255
    BY <1>1, SMTT(30)
  <2>2. n * 16 \in Byte
    <3> DEFINE v == n * 16
    <3> HIDE DEF v
    <3>1. v \in Byte
      BY <2>1, ByteIs DEF v
    <3> QED
      BY <3>1 DEF v
  <2> QED
    BY <1>1, <2>2
<1>5. tcp_serialize(s, EthernetMaxPayload) = z
  <2> DEFINE total == n * 4 + Len(k)
  <2>1. ~(n < 5 \/ n > 15)
    BY <1>1
  <2>2. ~(Len(i) # n * 4 - TCP_MIN_HEADER_LEN)
    BY <1>1 DEF TCP_MIN_HEADER_LEN
  <2>3. ~(total > MaxPacketLen \/ EthernetMaxPayload < total)
    BY <1>1, EthernetAssumption, ChecksumAssumption, FramePathAssumption, SMTT(30)
  <2> QED
    BY <2>1, <2>2, <2>3, Zenon DEF tcp_serialize, Cat4
<1> HIDE DEF a, b, c, d, e, f, g, h, i, k, n
<1>6. /\ x \in Seq(Byte) /\ Len(x) = 12 /\ Occurs(x, 0, a) /\ Occurs(x, 2, b)
      /\ Occurs(x, 4, c) /\ Occurs(x, 8, d)
  <2>1. FourAt(x, a, b, c, d)
    BY <1>2, <1>3, FourJoined, Zenon
  <2> HIDE DEF x
  <2> QED
    BY <1>2, <1>3, <2>1 DEF FourAt
<1> HIDE DEF x
<1>7. /\ y \in Seq(Byte) /\ Len(y) = 18 /\ Occurs(y, 0, x) /\ Occurs(y, 12, e)
      /\ Occurs(y, 14, f) /\ Occurs(y, 16, g)
  <2>1. FourAt(y, x, e, f, g)
    BY <1>2, <1>4, <1>6, FourJoined, Zenon
  <2> HIDE DEF y
  <2> QED
    BY <1>2, <1>4, <1>6, <2>1 DEF FourAt
<1> HIDE DEF y
<1>8. /\ z \in Seq(Byte) /\ Len(z) = 4 * n + Len(k) /\ Occurs(z, 0, y) /\ Occurs(z, 18, h)
      /\ Occurs(z, 20, i) /\ Occurs(z, 4 * n, k)
  <2>1. FourAt(z, y, h, i, k)
    BY <1>1, <1>2, <1>7, FourJoined, Zenon
  <2> HIDE DEF z
  <2>2. Len(y) = 18 /\ Len(y) + Len(h) = 20 /\ Len(y) + Len(h) + Len(i) = 4 * n
    BY <1>1, <1>2, <1>7
  <2> QED
    BY <2>1, <2>2, Zenon DEF FourAt
<1> HIDE DEF z
<1>9. /\ Occurs(z, 0, x) /\ Occurs(z, 12, e) /\ Occurs(z, 14, f) /\ Occurs(z, 16, g)
  <2>1. \A u \in Seq(Byte) : \A p : Occurs(y, p, u) => Occurs(z, p, u)
    BY <1>7, <1>8, HeadIn, Zenon
  <2> QED
    BY <1>2, <1>4, <1>6, <1>7, <2>1
<1>10. /\ Occurs(z, 0, a) /\ Occurs(z, 2, b) /\ Occurs(z, 4, c) /\ Occurs(z, 8, d)
  <2>1. \A u \in Seq(Byte) : \A p : Occurs(x, p, u) => Occurs(z, p, u)
    BY <1>6, <1>8, <1>9, HeadIn, Zenon
  <2> QED
    BY <1>2, <1>3, <1>6, <2>1
<1>11. TcpAt(z, s)
  BY <1>8, <1>9, <1>10, Zenon DEF TcpAt, a, b, c, d, e, f, g, h, i, k, n
<1>12. read_u16_be(z, 16) = 0
  <2>1. 16 \in Nat
    OBVIOUS
  <2> QED
    BY <1>1, <1>9, <2>1, WordRead, Zenon DEF g
<1> QED
  BY <1>5, <1>11, <1>12, Zenon

\* Its fields stay where they are when the checksum is written.
LEMMA TcpPatched ==
  ASSUME NEW s, IsTcp(s), NEW z, TcpAt(z, s), NEW e \in Seq(Byte), NEW c, WrittenAt(z, e, 16, c)
  PROVE  TcpAt(e, s)
<1>1. /\ s.source_port \in Word /\ s.destination_port \in Word
      /\ s.sequence_number \in Word \X Word /\ s.acknowledgment_number \in Word \X Word
      /\ s.data_offset \in Nat /\ 5 <= s.data_offset /\ s.window_size \in Word
      /\ s.urgent_pointer \in Word /\ s.options \in Seq(Byte) /\ s.payload \in Seq(Byte)
  BY SMTT(30) DEF IsTcp, TcpPacket
<1> DEFINE a == write_u16_be(s.source_port)
           b == write_u16_be(s.destination_port)
           x == write_u32_be(s.sequence_number)
           d == write_u32_be(s.acknowledgment_number)
           g == <<s.data_offset * 16, s.flags>>
           f == write_u16_be(s.window_size)
           h == write_u16_be(s.urgent_pointer)
           n == s.data_offset
<1>2. Len(a) = 2 /\ Len(b) = 2 /\ Len(f) = 2 /\ Len(h) = 2
  BY <1>1, WordBytes, Zenon
<1>3. Len(x) = 4 /\ Len(d) = 4
  BY <1>1, LongBytes, Zenon
<1>4. Len(g) = 2
  OBVIOUS
<1>5. /\ z \in Seq(Byte) /\ Len(z) = 4 * n + Len(s.payload)
      /\ Occurs(z, 0, a) /\ Occurs(z, 2, b) /\ Occurs(z, 4, x) /\ Occurs(z, 8, d)
      /\ Occurs(z, 12, g) /\ Occurs(z, 14, f) /\ Occurs(z, 18, h)
      /\ Occurs(z, 20, s.options) /\ Occurs(z, 4 * n, s.payload)
  BY Zenon DEF TcpAt
<1> HIDE DEF a, b, x, d, g, f, h, n
<1>6. \A t, p : Len(t) \in Nat /\ Occurs(z, p, t) /\ (p + Len(t) <= 16 \/ 18 <= p) => Occurs(e, p, t)
  <2>1. Len(z) \in Nat /\ 16 + 2 = 18
    BY <1>5
  <2> QED
    BY <2>1, OthersStay
<1>7. /\ Occurs(e, 0, a) /\ Occurs(e, 2, b) /\ Occurs(e, 4, x) /\ Occurs(e, 8, d)
      /\ Occurs(e, 12, g) /\ Occurs(e, 14, f) /\ Occurs(e, 18, h)
  <2>1. /\ Len(a) \in Nat /\ 0 + Len(a) <= 16 /\ Len(b) \in Nat /\ 2 + Len(b) <= 16
        /\ Len(x) \in Nat /\ 4 + Len(x) <= 16 /\ Len(d) \in Nat /\ 8 + Len(d) <= 16
        /\ Len(g) \in Nat /\ 12 + Len(g) <= 16 /\ Len(f) \in Nat /\ 14 + Len(f) <= 16
        /\ Len(h) \in Nat /\ 18 <= 18
    BY <1>2, <1>3, <1>4
  <2>2. Occurs(e, 0, a) /\ Occurs(e, 2, b)
    BY <1>5, <1>6, <2>1, Zenon
  <2>3. Occurs(e, 4, x) /\ Occurs(e, 8, d)
    BY <1>5, <1>6, <2>1, Zenon
  <2>4. Occurs(e, 12, g) /\ Occurs(e, 14, f)
    BY <1>5, <1>6, <2>1, Zenon
  <2>5. Occurs(e, 18, h)
    BY <1>5, <1>6, <2>1, Zenon
  <2> QED
    BY <2>2, <2>3, <2>4, <2>5
<1>8. Occurs(e, 20, s.options) /\ Occurs(e, 4 * n, s.payload)
  <2>1. Len(s.options) \in Nat /\ Len(s.payload) \in Nat /\ 18 <= 20 /\ 18 <= 4 * n
    BY <1>1 DEF n
  <2> QED
    BY <1>5, <1>6, <2>1
<1>9. Len(e) = Len(z)
  BY DEF WrittenAt
<1> QED
  BY <1>5, <1>7, <1>8, <1>9, Zenon DEF TcpAt, a, b, x, d, g, f, h, n

\* The segment that tcp_serialize_ipv4 makes.
LEMMA TcpBody ==
  ASSUME NEW s, IsTcp(s), NEW from, NEW to, IsIp(from), IsIp(to),
         NEW B, B = tcp_serialize_ipv4(s, from, to, EthernetMaxPayload)
  PROVE  /\ 4 * s.data_offset + Len(s.payload) > EthernetMaxPayload => B = <<>>
         /\ 4 * s.data_offset + Len(s.payload) <= EthernetMaxPayload =>
              /\ TcpAt(B, s) /\ Len(B) \in Word
              /\ Sealed(pseudo_header_sum(from, to, TCP_PROTOCOL, Len(B)), B)
<1> DEFINE s0 == [s EXCEPT !.checksum = 0]
           z == tcp_serialize(s0, EthernetMaxPayload)
           c == tcp_checksum_ipv4(from, to, z)
           n == 4 * s.data_offset + Len(s.payload)
<1>1. /\ s \in TcpPacket /\ Len(s.options) = 4 * s.data_offset - TCP_MIN_HEADER_LEN
      /\ s.data_offset \in Nat /\ 5 <= s.data_offset /\ s.payload \in Seq(Byte)
  BY DEF IsTcp, TcpPacket
<1>2. /\ s0 \in TcpPacket /\ s0.checksum = 0
      /\ s0.source_port = s.source_port /\ s0.destination_port = s.destination_port
      /\ s0.sequence_number = s.sequence_number
      /\ s0.acknowledgment_number = s.acknowledgment_number
      /\ s0.data_offset = s.data_offset /\ s0.flags = s.flags /\ s0.window_size = s.window_size
      /\ s0.urgent_pointer = s.urgent_pointer /\ s0.options = s.options /\ s0.payload = s.payload
  <2>1. 0 \in Word
    BY SmallWords
  <2> QED
    BY <1>1, <2>1 DEF TcpPacket
<1>3. /\ EthernetMaxPayload \in Nat /\ EthernetMaxPayload <= MaxPacketLen
      /\ MaxPacketLen \in Nat /\ MaxPacketLen <= 65535
  BY EthernetAssumption, ChecksumAssumption, FramePathAssumption
<1>4. B = IF z = <<>> \/ c = 0 THEN <<>> ELSE Patch(z, 16, c)
  BY Zenon DEF tcp_serialize_ipv4
<1> HIDE DEF s0
<1>5. CASE n > EthernetMaxPayload
  <2>1. /\ EthernetMaxPayload < s0.data_offset * 4 + Len(s0.payload)
    BY <1>1, <1>2, <1>3, <1>5
  <2>2. z = <<>>
    BY <2>1, Zenon DEF tcp_serialize
  <2>3. ~(n <= EthernetMaxPayload)
    BY <1>1, <1>3, <1>5
  <2> QED
    BY <1>4, <2>2, <2>3, Zenon
<1>6. CASE ~(n > EthernetMaxPayload)
  <2>1. n \in Nat /\ n >= 20 /\ n <= EthernetMaxPayload /\ n <= 65535 /\ n \in Word
    <3>1. s.data_offset \in Nat /\ 5 <= s.data_offset /\ Len(s.payload) \in Nat
      BY <1>1
    <3>2. n \in Nat /\ n >= 20
      BY <3>1
    <3> HIDE DEF n
    <3>3. n <= EthernetMaxPayload /\ n <= 65535
      BY <1>3, <1>6, <3>2
    <3> QED
      BY <3>2, <3>3, SmallWords
  <2>2. IsTcp(s0) /\ 4 * s0.data_offset + Len(s0.payload) <= EthernetMaxPayload
    <3>1. n <= EthernetMaxPayload
      BY <2>1
    <3> QED
      BY <1>1, <1>2, <3>1, Zenon DEF IsTcp
  <2>3. TcpAt(z, s0) /\ read_u16_be(z, 16) = 0
    BY <1>2, <2>2, TcpWritten, Zenon
  <2> HIDE DEF z, c
  <2>4. TcpAt(z, s) /\ z \in Seq(Byte) /\ Len(z) = n
    BY <1>2, <2>3, Zenon DEF TcpAt
  <2> HIDE DEF n
  <2> DEFINE p == pseudo_header_sum(from, to, TCP_PROTOCOL, Len(z))
             r == checksum_finish(add_bytes(p, z))
  <2>5. p \in Word
    <3>1. TCP_PROTOCOL \in Word
      BY SmallWords DEF TCP_PROTOCOL
    <3> QED
      BY <2>1, <2>4, <3>1, PseudoIs
  <2>6. r \in Nat
    <3> HIDE DEF p
    <3>1. add_bytes(p, z) \in Word
      BY <2>4, <2>5, SumType
    <3>2. r \in Word
      BY <3>1, FinishSeals
    <3> QED
      BY <3>2, SmallWords
  <2>7. c = IF r = 0 THEN 65535 ELSE r
    <3>1. ~(Len(z) < TCP_MIN_HEADER_LEN \/ Len(z) > 65535)
      BY <2>1, <2>4 DEF TCP_MIN_HEADER_LEN
    <3> HIDE DEF p
    <3>2. checksum_finish(tcp_checksum_sum_ipv4(from, to, z)) = r
      BY DEF tcp_checksum_sum_ipv4, p
    <3> QED
      BY <3>1, <3>2 DEF tcp_checksum_ipv4, c
  <2> HIDE DEF p
  <2>8. c # 0 /\ (c = r \/ (r = 0 /\ c = 65535))
    BY <2>6, <2>7
  <2>9. z # <<>> /\ 16 + 2 <= Len(z) /\ 16 \in Nat /\ 16 % 2 = 0
    BY <2>1, <2>4
  <2>10. B = Patch(z, 16, c)
    BY <1>4, <2>8, <2>9 DEF z, c
  <2>11. B \in Seq(Byte) /\ WrittenAt(z, B, 16, c) /\ Sealed(p, B)
    BY <2>3, <2>4, <2>5, <2>8, <2>9, <2>10, SealHolds
  <2>12. TcpAt(B, s) /\ Len(B) = Len(z)
    BY <2>4, <2>11, TcpPatched DEF WrittenAt
  <2>13. Sealed(pseudo_header_sum(from, to, TCP_PROTOCOL, Len(B)), B) /\ Len(B) \in Word
    BY <2>1, <2>4, <2>11, <2>12 DEF p
  <2> QED
    BY <1>6, <2>12, <2>13 DEF n
<1> QED
  BY <1>5, <1>6

\* Where the fields of a datagram lie, the checksum aside.
UdpAt(z, s) ==
  /\ z \in Seq(Byte) /\ Len(z) = 8 + Len(s.payload)
  /\ Occurs(z, 0, write_u16_be(s.source_port)) /\ Occurs(z, 2, write_u16_be(s.destination_port))
  /\ Occurs(z, 4, write_u16_be(s.length)) /\ Occurs(z, 8, s.payload)

\* A datagram whose length field is right.
IsUdp(s) == s \in UdpPacket /\ s.length = UDP_HEADER_LEN + Len(s.payload)

\* A datagram as it is written, with a checksum of 0.
LEMMA UdpWritten ==
  ASSUME NEW s, IsUdp(s), s.checksum = 0, 8 + Len(s.payload) <= MaxPacketLen
  PROVE  UdpAt(udp_serialize(s, MaxPacketLen), s)
         /\ read_u16_be(udp_serialize(s, MaxPacketLen), 6) = 0
<1> DEFINE a == write_u16_be(s.source_port)
           b == write_u16_be(s.destination_port)
           c == write_u16_be(s.length)
           d == write_u16_be(s.checksum)
           k == s.payload
           x == Cat4(a, b, c, d)
           z == x \o k
<1>1. /\ s.source_port \in Word /\ s.destination_port \in Word /\ s.length \in Word
      /\ s.checksum \in Word /\ k \in Seq(Byte) /\ s.length = 8 + Len(k)
  BY DEF IsUdp, UdpPacket, UDP_HEADER_LEN
<1>2. /\ a \in Seq(Byte) /\ Len(a) = 2 /\ b \in Seq(Byte) /\ Len(b) = 2
      /\ c \in Seq(Byte) /\ Len(c) = 2 /\ d \in Seq(Byte) /\ Len(d) = 2
  BY <1>1, WordBytes, Zenon
<1>3. udp_serialize(s, MaxPacketLen) = z
  <2> DEFINE total == UDP_HEADER_LEN + Len(k)
  <2>1. u16(total) = s.length
    BY <1>1, SmallWords DEF UDP_HEADER_LEN
  <2>2. ~(Len(k) > UDP_MAX_PAYLOAD_LEN \/ total > MaxPacketLen \/ MaxPacketLen < total)
    BY <1>1, ChecksumAssumption DEF UDP_HEADER_LEN, UDP_MAX_PAYLOAD_LEN
  <2> QED
    BY <2>1, <2>2, Zenon DEF udp_serialize, Cat4
<1> HIDE DEF a, b, c, d, k
<1>4. /\ x \in Seq(Byte) /\ Len(x) = 8 /\ Occurs(x, 0, a) /\ Occurs(x, 2, b)
      /\ Occurs(x, 4, c) /\ Occurs(x, 6, d)
  <2>1. FourAt(x, a, b, c, d)
    BY <1>2, FourJoined, Zenon
  <2> HIDE DEF x
  <2> QED
    BY <1>2, <2>1 DEF FourAt
<1> HIDE DEF x
<1>5. /\ z \in Seq(Byte) /\ Len(z) = 8 + Len(k) /\ Occurs(z, 0, x) /\ Occurs(z, 8, k)
  <2>1. /\ z \in Seq(Byte) /\ Len(z) = Len(x) + Len(k) /\ Occurs(z, 0, x) /\ Occurs(z, Len(x), k)
    BY <1>1, <1>4, Joined, Zenon
  <2> HIDE DEF z
  <2> QED
    BY <1>4, <2>1, Zenon
<1> HIDE DEF z
<1>6. Occurs(z, 0, a) /\ Occurs(z, 2, b) /\ Occurs(z, 4, c) /\ Occurs(z, 6, d)
  <2>1. \A u \in Seq(Byte) : \A p : Occurs(x, p, u) => Occurs(z, p, u)
    BY <1>4, <1>5, HeadIn, Zenon
  <2> QED
    BY <1>2, <1>4, <2>1
<1>7. UdpAt(z, s)
  BY <1>5, <1>6, Zenon DEF UdpAt, a, b, c, k
<1>8. read_u16_be(z, 6) = 0
  <2>1. 6 \in Nat
    OBVIOUS
  <2> QED
    BY <1>1, <1>6, <2>1, WordRead, Zenon DEF d
<1> QED
  BY <1>3, <1>7, <1>8, Zenon

\* Its fields stay where they are whatever the checksum's bytes are.
LEMMA UdpPatched ==
  ASSUME NEW s, IsUdp(s), NEW z, UdpAt(z, s), NEW e \in Seq(Byte), Len(e) = Len(z),
         \A j \in 1 .. Len(z) : j # 7 /\ j # 8 => e[j] = z[j]
  PROVE  UdpAt(e, s)
<1>1. /\ s.source_port \in Word /\ s.destination_port \in Word /\ s.length \in Word
      /\ s.payload \in Seq(Byte)
  BY DEF IsUdp, UdpPacket
<1> DEFINE a == write_u16_be(s.source_port)
           b == write_u16_be(s.destination_port)
           c == write_u16_be(s.length)
           k == s.payload
<1>2. Len(a) = 2 /\ Len(b) = 2 /\ Len(c) = 2
  BY <1>1, WordBytes, Zenon
<1>3. /\ z \in Seq(Byte) /\ Len(z) = 8 + Len(k)
      /\ Occurs(z, 0, a) /\ Occurs(z, 2, b) /\ Occurs(z, 4, c) /\ Occurs(z, 8, k)
  BY Zenon DEF UdpAt
<1>4. Len(k) \in Nat /\ Len(z) \in Nat
  BY <1>1, <1>3
<1> HIDE DEF a, b, c, k
<1>5. ASSUME NEW t, NEW p, Len(t) \in Nat, Occurs(z, p, t), p + Len(t) <= 6 \/ 8 <= p
      PROVE  Occurs(e, p, t)
  <2>1. p \in Nat /\ p + Len(t) <= Len(z) /\ \A j \in 1 .. Len(t) : z[p + j] = t[j]
    BY <1>5 DEF Occurs
  <2>2. ASSUME NEW j \in 1 .. Len(t) PROVE e[p + j] = t[j]
    <3>1. p + j \in 1 .. Len(z) /\ p + j # 7 /\ p + j # 8
      BY <1>4, <1>5, <2>1
    <3> QED
      BY <2>1, <3>1
  <2> QED
    BY <2>1, <2>2 DEF Occurs
<1>6. /\ Len(a) \in Nat /\ 0 + Len(a) <= 6 /\ Len(b) \in Nat /\ 2 + Len(b) <= 6
      /\ Len(c) \in Nat /\ 4 + Len(c) <= 6 /\ 8 <= 8
  BY <1>2
<1>7. Occurs(e, 0, a) /\ Occurs(e, 2, b)
  BY <1>3, <1>5, <1>6, Zenon
<1>8. Occurs(e, 4, c) /\ Occurs(e, 8, k)
  BY <1>3, <1>4, <1>5, <1>6, Zenon
<1> QED
  BY <1>3, <1>7, <1>8, Zenon DEF UdpAt, a, b, c, k

\* The datagram that udp_serialize_ipv4 makes.
LEMMA UdpBody ==
  ASSUME NEW s, IsUdp(s), NEW from, NEW to, IsIp(from), IsIp(to),
         NEW B, B = udp_serialize_ipv4(s, from, to, MaxPacketLen)
  PROVE  /\ 8 + Len(s.payload) > MaxPacketLen => B = <<>>
         /\ 8 + Len(s.payload) <= MaxPacketLen =>
              /\ UdpAt(B, s) /\ Len(B) \in Word /\ read_u16_be(B, 6) # 0
              /\ Sealed(pseudo_header_sum(from, to, UDP_PROTOCOL, Len(B)), B)
<1> DEFINE s0 == [s EXCEPT !.checksum = 0]
           z == udp_serialize(s0, MaxPacketLen)
           c == udp_checksum_ipv4(from, to, z)
           n == 8 + Len(s.payload)
<1>1. s \in UdpPacket /\ s.payload \in Seq(Byte) /\ s.length = UDP_HEADER_LEN + Len(s.payload)
  BY DEF IsUdp, UdpPacket
<1>2. /\ s0 \in UdpPacket /\ s0.checksum = 0
      /\ s0.source_port = s.source_port /\ s0.destination_port = s.destination_port
      /\ s0.length = s.length /\ s0.payload = s.payload
  <2>1. 0 \in Word
    BY SmallWords
  <2> QED
    BY <1>1, <2>1 DEF UdpPacket
<1>3. MaxPacketLen \in Nat /\ MaxPacketLen <= 65535
  BY ChecksumAssumption
<1>4. B = IF z = <<>> \/ c = 0 THEN <<>> ELSE Patch(z, 6, c)
  BY Zenon DEF udp_serialize_ipv4
<1> HIDE DEF s0
<1>5. CASE n > MaxPacketLen
  <2>1. UDP_HEADER_LEN + Len(s0.payload) > MaxPacketLen
    BY <1>1, <1>2, <1>3, <1>5 DEF UDP_HEADER_LEN
  <2>2. z = <<>>
    BY <2>1, Zenon DEF udp_serialize
  <2>3. ~(n <= MaxPacketLen)
    BY <1>1, <1>3, <1>5
  <2> QED
    BY <1>4, <2>2, <2>3, Zenon
<1>6. CASE ~(n > MaxPacketLen)
  <2>1. n \in Nat /\ n >= 8 /\ n <= MaxPacketLen /\ n <= 65535 /\ n \in Word
    BY <1>1, <1>3, <1>6, SmallWords
  <2>2. IsUdp(s0) /\ 8 + Len(s0.payload) <= MaxPacketLen
    <3>1. n <= MaxPacketLen
      BY <2>1
    <3> QED
      BY <1>1, <1>2, <3>1, Zenon DEF IsUdp
  <2>3. UdpAt(z, s0) /\ read_u16_be(z, 6) = 0
    BY <1>2, <2>2, UdpWritten, Zenon
  <2> HIDE DEF z, c
  <2>4. UdpAt(z, s) /\ z \in Seq(Byte) /\ Len(z) = n
    BY <1>2, <2>3, Zenon DEF UdpAt
  <2> HIDE DEF n
  <2> DEFINE p == pseudo_header_sum(from, to, UDP_PROTOCOL, Len(z))
             r == checksum_finish(add_bytes(p, z))
  <2>5. p \in Word
    <3>1. UDP_PROTOCOL \in Word
      BY SmallWords DEF UDP_PROTOCOL
    <3> QED
      BY <2>1, <2>4, <3>1, PseudoIs
  <2>6. r \in Nat
    <3> HIDE DEF p
    <3>1. add_bytes(p, z) \in Word
      BY <2>4, <2>5, SumType
    <3>2. r \in Word
      BY <3>1, FinishSeals
    <3> QED
      BY <3>2, SmallWords
  <2>7. c = IF r = 0 THEN 65535 ELSE r
    <3>1. ~(Len(z) < UDP_HEADER_LEN \/ Len(z) > 65535)
      BY <2>1, <2>4 DEF UDP_HEADER_LEN
    <3> HIDE DEF p
    <3>2. udp_sum(from, to, z) = r
      BY DEF udp_sum, p
    <3> QED
      BY <3>1, <3>2 DEF udp_checksum_ipv4, c
  <2> HIDE DEF p
  <2>8. c # 0 /\ (c = r \/ (r = 0 /\ c = 65535))
    BY <2>6, <2>7
  <2>9. z # <<>> /\ 6 + 2 <= Len(z) /\ 6 \in Nat /\ 6 % 2 = 0
    BY <2>1, <2>4
  <2>10. B = Patch(z, 6, c)
    BY <1>4, <2>8, <2>9 DEF z, c
  <2>11. B \in Seq(Byte) /\ WrittenAt(z, B, 6, c) /\ Sealed(p, B)
    BY <2>3, <2>4, <2>5, <2>8, <2>9, <2>10, SealHolds
  <2>12. /\ Len(B) = Len(z) /\ read_u16_be(B, 6) = c
         /\ \A j \in 1 .. Len(z) : j # 7 /\ j # 8 => B[j] = z[j]
    BY <2>11 DEF WrittenAt
  <2>13. UdpAt(B, s)
    BY <2>4, <2>11, <2>12, UdpPatched
  <2>14. Sealed(pseudo_header_sum(from, to, UDP_PROTOCOL, Len(B)), B) /\ Len(B) \in Word
    BY <2>1, <2>4, <2>11, <2>12 DEF p
  <2> QED
    BY <1>6, <2>8, <2>12, <2>13, <2>14 DEF n
<1> QED
  BY <1>5, <1>6

\* Where the fields of an echo message lie, the checksum aside.
IcmpAt(z, s) ==
  /\ z \in Seq(Byte) /\ Len(z) = 8 + Len(s.payload) /\ z[1] = s.type /\ z[2] = s.code
  /\ Occurs(z, 4, write_u16_be(s.identifier)) /\ Occurs(z, 6, write_u16_be(s.sequence))
  /\ Occurs(z, 8, s.payload)

\* The echo message that icmp_serialize makes.
LEMMA IcmpBody ==
  ASSUME NEW s \in IcmpPacket, NEW B, B = icmp_serialize(s, MaxPacketLen)
  PROVE  /\ 8 + Len(s.payload) > MaxPacketLen => B = <<>>
         /\ 8 + Len(s.payload) <= MaxPacketLen => IcmpAt(B, s) /\ Sealed(0, B)
<1> DEFINE n == 8 + Len(s.payload)
           a == <<s.type, s.code, 0, 0>>
           b == write_u16_be(s.identifier)
           c == write_u16_be(s.sequence)
           k == s.payload
           z == Cat4(a, b, c, k)
           v == icmp_checksum(z)
<1>1. /\ s.type \in EchoTypes /\ s.code = ICMP_CODE_ECHO /\ s.identifier \in Word
      /\ s.sequence \in Word /\ k \in Seq(Byte)
  BY DEF IcmpPacket
<1>2. MaxPacketLen \in Nat /\ Len(k) \in Nat
  BY <1>1, ChecksumAssumption
<1>3. B = IF \/ s.type \notin EchoTypes \/ s.code # ICMP_CODE_ECHO
             \/ Len(k) > ICMP_MAX_PAYLOAD_LEN \/ MaxPacketLen < ICMP_ECHO_HEADER_LEN + Len(k)
          THEN <<>> ELSE Patch(z, 2, v)
  BY Zenon DEF icmp_serialize, Cat4
<1>4. CASE n > MaxPacketLen
  <2>1. Len(k) > ICMP_MAX_PAYLOAD_LEN /\ ~(n <= MaxPacketLen)
    BY <1>2, <1>4 DEF ICMP_MAX_PAYLOAD_LEN, ICMP_ECHO_HEADER_LEN
  <2> QED
    BY <1>3, <2>1, Zenon
<1>5. CASE ~(n > MaxPacketLen)
  <2>1. ~(Len(k) > ICMP_MAX_PAYLOAD_LEN \/ MaxPacketLen < ICMP_ECHO_HEADER_LEN + Len(k))
    BY <1>2, <1>5 DEF ICMP_MAX_PAYLOAD_LEN, ICMP_ECHO_HEADER_LEN
  <2>2. B = Patch(z, 2, v)
    BY <1>1, <1>3, <2>1, Zenon
  <2>3. /\ a \in Seq(Byte) /\ Len(a) = 4 /\ a[1] = s.type /\ a[2] = s.code
        /\ a[3] = 0 /\ a[4] = 0
    <3>1. 0 \in Byte /\ s.type \in Byte /\ s.code \in Byte
      BY <1>1, SmallWords DEF EchoTypes, ICMP_TYPE_ECHO_REPLY, ICMP_TYPE_ECHO_REQUEST, ICMP_CODE_ECHO
    <3> QED
      BY <3>1
  <2>4. b \in Seq(Byte) /\ Len(b) = 2 /\ c \in Seq(Byte) /\ Len(c) = 2
    BY <1>1, WordBytes, Zenon
  <2> HIDE DEF a, b, c
  <2>5. /\ z \in Seq(Byte) /\ Len(z) = n /\ Occurs(z, 0, a) /\ Occurs(z, 4, b)
        /\ Occurs(z, 6, c) /\ Occurs(z, 8, k)
    <3>1. FourAt(z, a, b, c, k)
      BY <1>1, <2>3, <2>4, FourJoined, Zenon
    <3> HIDE DEF z
    <3>2. /\ Len(a) + Len(b) = 6 /\ Len(a) + Len(b) + Len(c) = 8
          /\ Len(a) + Len(b) + Len(c) + Len(k) = 8 + Len(k)
      BY <1>2, <2>3, <2>4
    <3> QED
      BY <2>3, <3>1, <3>2, Zenon DEF FourAt
  <2> HIDE DEF z
  <2>6. z[1] = s.type /\ z[2] = s.code /\ read_u16_be(z, 2) = 0
    <3>1. z[0 + 1] = a[1] /\ z[0 + 2] = a[2] /\ z[0 + 3] = a[3] /\ z[0 + 4] = a[4]
      BY <2>3, <2>5 DEF Occurs
    <3> QED
      BY <2>3, <3>1 DEF read_u16_be
  <2>7. 0 \in Word /\ 2 \in Nat /\ 2 % 2 = 0 /\ n \in Nat /\ 2 + 2 <= n /\ 1 \in 1 .. n /\ 2 \in 1 .. n
    BY <1>2, SmallWords
  <2>8. v = checksum_finish(add_bytes(0, z))
    BY DEF icmp_checksum
  <2> HIDE DEF v, n
  <2>9. B \in Seq(Byte) /\ WrittenAt(z, B, 2, v) /\ Sealed(0, B)
    BY <2>2, <2>5, <2>6, <2>7, <2>8, SealHolds
  <2>10. Len(B) = n /\ B[1] = z[1] /\ B[2] = z[2]
    BY <2>5, <2>7, <2>9 DEF WrittenAt
  <2>11. Occurs(B, 4, b) /\ Occurs(B, 6, c) /\ Occurs(B, 8, k)
    <3>1. \A t, p : Len(t) \in Nat /\ Occurs(z, p, t) /\ 4 <= p => Occurs(B, p, t)
      <4>1. Len(z) \in Nat /\ 2 + 2 = 4
        BY <2>5
      <4> QED
        BY <2>9, <4>1, OthersStay
    <3>2. 4 <= 4 /\ 4 <= 6 /\ 4 <= 8 /\ Len(b) \in Nat /\ Len(c) \in Nat
      BY <2>4
    <3>3. Occurs(B, 4, b)
      BY <2>5, <3>1, <3>2, Zenon
    <3>4. Occurs(B, 6, c)
      BY <2>5, <3>1, <3>2, Zenon
    <3>5. Occurs(B, 8, k)
      BY <1>2, <2>5, <3>1, <3>2, Zenon
    <3> QED
      BY <3>3, <3>4, <3>5
  <2>12. IcmpAt(B, s)
    BY <2>6, <2>9, <2>10, <2>11, Zenon DEF IcmpAt, b, c, k, n
  <2> QED
    BY <1>5, <2>9, <2>12 DEF n
<1> QED
  BY <1>4, <1>5

\* Where the fields of an ARP packet lie.
ArpAt(z, s) ==
  /\ z \in Seq(Byte) /\ Len(z) = 28
  /\ read_u16_be(z, 0) = s.hardware_type /\ read_u16_be(z, 2) = s.protocol_type
  /\ z[5] = s.hardware_addr_len /\ z[6] = s.protocol_addr_len /\ read_u16_be(z, 6) = s.opcode
  /\ Occurs(z, 8, s.sender_mac) /\ Occurs(z, 14, s.sender_ip)
  /\ Occurs(z, 18, s.target_mac) /\ Occurs(z, 24, s.target_ip)

\* A packet with addresses of the right length.
IsArp(s) ==
  /\ s \in ArpPacket /\ IsMac(s.sender_mac) /\ IsMac(s.target_mac)
  /\ IsIp(s.sender_ip) /\ IsIp(s.target_ip)

\* The packet that arp_serialize makes.
LEMMA ArpBody ==
  ASSUME NEW s, IsArp(s)
  PROVE  ArpAt(arp_serialize(s, ARP_PACKET_LEN), s)
<1> DEFINE a == write_u16_be(s.hardware_type)
           b == write_u16_be(s.protocol_type)
           c == <<s.hardware_addr_len, s.protocol_addr_len>>
           d == write_u16_be(s.opcode)
           e == s.sender_mac
           f == s.sender_ip
           g == s.target_mac
           h == s.target_ip
           x == Cat4(a, b, c, d)
           y == Cat4(x, e, f, g)
           z == y \o h
<1>1. /\ s.hardware_type = ARP_ETHERNET /\ s.protocol_type = ARP_PROTOCOL_IPV4
      /\ s.hardware_addr_len = 6 /\ s.protocol_addr_len = 4
      /\ s.opcode \in {ARP_OPCODE_REQUEST, ARP_OPCODE_REPLY}
      /\ e \in Seq(Byte) /\ Len(e) = 6 /\ f \in Seq(Byte) /\ Len(f) = 4
      /\ g \in Seq(Byte) /\ Len(g) = 6 /\ h \in Seq(Byte) /\ Len(h) = 4
  BY DEF IsArp, ArpPacket, IsMac, IsIp, ARP_HARDWARE_ADDR_LEN, ARP_PROTOCOL_ADDR_LEN
<1>2. s.hardware_type \in Word /\ s.protocol_type \in Word /\ s.opcode \in Word
  BY <1>1, SmallWords DEF ARP_ETHERNET, ARP_PROTOCOL_IPV4, ARP_OPCODE_REQUEST, ARP_OPCODE_REPLY
<1>3. /\ a \in Seq(Byte) /\ Len(a) = 2 /\ b \in Seq(Byte) /\ Len(b) = 2
      /\ d \in Seq(Byte) /\ Len(d) = 2
  BY <1>2, WordBytes, Zenon
<1>4. /\ c \in Seq(Byte) /\ Len(c) = 2 /\ c[1] = s.hardware_addr_len /\ c[2] = s.protocol_addr_len
  <2>1. 6 \in Byte /\ 4 \in Byte
    BY SmallWords
  <2> QED
    BY <1>1, <2>1
<1>5. arp_serialize(s, ARP_PACKET_LEN) = z
  <2>1. ~(ARP_PACKET_LEN < ARP_PACKET_LEN)
    BY DEF ARP_PACKET_LEN
  <2>2. arp_packet_is_valid(s)
    BY <1>1 DEF arp_packet_is_valid, ARP_HARDWARE_ADDR_LEN, ARP_PROTOCOL_ADDR_LEN
  <2> QED
    BY <2>1, <2>2, Zenon DEF arp_serialize, Cat4
<1> HIDE DEF a, b, c, d, e, f, g, h
<1>6. /\ x \in Seq(Byte) /\ Len(x) = 8 /\ Occurs(x, 0, a) /\ Occurs(x, 2, b)
      /\ Occurs(x, 4, c) /\ Occurs(x, 6, d)
  <2>1. FourAt(x, a, b, c, d)
    BY <1>3, <1>4, FourJoined, Zenon
  <2> HIDE DEF x
  <2> QED
    BY <1>3, <1>4, <2>1 DEF FourAt
<1> HIDE DEF x
<1>7. /\ y \in Seq(Byte) /\ Len(y) = 24 /\ Occurs(y, 0, x) /\ Occurs(y, 8, e)
      /\ Occurs(y, 14, f) /\ Occurs(y, 18, g)
  <2>1. FourAt(y, x, e, f, g)
    BY <1>1, <1>6, FourJoined, Zenon
  <2> HIDE DEF y
  <2> QED
    BY <1>1, <1>6, <2>1 DEF FourAt
<1> HIDE DEF y
<1>8. /\ z \in Seq(Byte) /\ Len(z) = 28 /\ Occurs(z, 0, y) /\ Occurs(z, 24, h)
  <2>1. /\ z \in Seq(Byte) /\ Len(z) = Len(y) + Len(h) /\ Occurs(z, 0, y) /\ Occurs(z, Len(y), h)
    BY <1>1, <1>7, Joined, Zenon
  <2> HIDE DEF z
  <2> QED
    BY <1>1, <1>7, <2>1
<1> HIDE DEF z
<1>9. Occurs(z, 0, x) /\ Occurs(z, 8, e) /\ Occurs(z, 14, f) /\ Occurs(z, 18, g)
  <2>1. \A u \in Seq(Byte) : \A p : Occurs(y, p, u) => Occurs(z, p, u)
    BY <1>7, <1>8, HeadIn, Zenon
  <2> QED
    BY <1>1, <1>6, <1>7, <2>1
<1>10. Occurs(z, 0, a) /\ Occurs(z, 2, b) /\ Occurs(z, 4, c) /\ Occurs(z, 6, d)
  <2>1. \A u \in Seq(Byte) : \A p : Occurs(x, p, u) => Occurs(z, p, u)
    BY <1>6, <1>8, <1>9, HeadIn, Zenon
  <2> QED
    BY <1>3, <1>4, <1>6, <2>1
<1>11. read_u16_be(z, 0) = s.hardware_type /\ read_u16_be(z, 2) = s.protocol_type
       /\ read_u16_be(z, 6) = s.opcode
  <2>1. 0 \in Nat /\ 2 \in Nat /\ 6 \in Nat
    OBVIOUS
  <2> QED
    BY <1>2, <1>10, <2>1, WordRead, Zenon DEF a, b, d
<1>12. z[5] = s.hardware_addr_len /\ z[6] = s.protocol_addr_len
  <2>1. z[4 + 1] = c[1] /\ z[4 + 2] = c[2]
    BY <1>4, <1>10 DEF Occurs
  <2> QED
    BY <1>4, <2>1
<1>13. ArpAt(z, s)
  BY <1>8, <1>9, <1>11, <1>12, Zenon DEF ArpAt, e, f, g, h
<1> QED
  BY <1>5, <1>13, Zenon

(***************************************************************************)
(* The frame of a message.                                                 *)
(***************************************************************************)
\* The message's packet, as the layers below IPv4 and Ethernet write it.
BodyOf(m) ==
  IF m.kind = "tcp" THEN tcp_serialize_ipv4(m.packet, m.from, m.to, EthernetMaxPayload)
  ELSE IF m.kind = "udp" THEN udp_serialize_ipv4(m.packet, m.from, m.to, MaxPacketLen)
  ELSE IF m.kind = "icmp" THEN icmp_serialize(m.packet, MaxPacketLen)
  ELSE arp_serialize(m.packet, ARP_PACKET_LEN)

\* The IPv4 header around it.
ProtocolOf(kind) ==
  IF kind = "tcp" THEN IPV4_PROTOCOL_TCP
  ELSE IF kind = "udp" THEN IPV4_PROTOCOL_UDP ELSE IPV4_PROTOCOL_ICMP

IdentificationOf(kind) == IF kind = "tcp" THEN 18516 ELSE IF kind = "udp" THEN 17486 ELSE 4919

\* The frame that goes out.
FrameOf(m) ==
  IF m.kind = "arp" THEN ethernet_frame(Broadcast, ETHERNET_TYPE_ARP, BodyOf(m))
  ELSE ipv4_frame(m, ProtocolOf(m.kind), BodyOf(m), IdentificationOf(m.kind))

\* What is known of the packet of a message.
BodyAt(B, m) ==
  /\ B \in Seq(Byte)
  /\ m.kind = "tcp" => /\ IsTcp(m.packet) /\ TcpAt(B, m.packet) /\ Len(B) \in Word
                       /\ Sealed(pseudo_header_sum(m.from, m.to, TCP_PROTOCOL, Len(B)), B)
  /\ m.kind = "udp" => /\ IsUdp(m.packet) /\ UdpAt(B, m.packet) /\ Len(B) \in Word
                       /\ read_u16_be(B, 6) # 0
                       /\ Sealed(pseudo_header_sum(m.from, m.to, UDP_PROTOCOL, Len(B)), B)
  /\ m.kind = "icmp" => m.packet \in IcmpPacket /\ IcmpAt(B, m.packet) /\ Sealed(0, B)

\* A message is written, unless it is longer than its protocol allows.
LEMMA BodyIs ==
  ASSUME NEW m \in Messages, m.kind # "arp"
  PROVE  /\ IsIp(m.from) /\ IsIp(m.to) /\ m.kind \in {"tcp", "udp", "icmp"}
         /\ Len(m.packet.payload) \in Nat /\ HeaderLen(m) \in Nat
         /\ BodyOf(m) = <<>> => HeaderLen(m) + Len(m.packet.payload) > EthernetMaxPayload
         /\ BodyOf(m) # <<>> => /\ BodyAt(BodyOf(m), m)
                                /\ 20 + Len(BodyOf(m)) = HeaderLen(m) + Len(m.packet.payload)
<1> DEFINE s == m.packet
           B == BodyOf(m)
<1>1. /\ IsIp(m.from) /\ IsIp(m.to)
      /\ \/ m.kind = "tcp" /\ IsTcp(s)
         \/ m.kind = "udp" /\ IsUdp(s)
         \/ m.kind = "icmp" /\ s \in IcmpPacket
  BY MessageAssumption DEF IsMessage, IsTcp, IsUdp
<1>2. /\ EthernetMaxPayload \in Nat /\ EthernetMaxPayload <= MaxPacketLen /\ MaxPacketLen \in Nat
  BY EthernetAssumption, ChecksumAssumption, FramePathAssumption
<1>3. CASE m.kind = "tcp" /\ IsTcp(s)
  <2>1. /\ s.data_offset \in Nat /\ 5 <= s.data_offset /\ Len(s.payload) \in Nat
        /\ Len(s.options) = 4 * s.data_offset - 20
    BY <1>3, SMTT(30) DEF IsTcp, TcpPacket, TCP_MIN_HEADER_LEN
  <2>2. HeaderLen(m) = 20 + 20 + Len(s.options)
    BY <1>3 DEF HeaderLen, IPV4_MIN_HEADER_LEN, TCP_MIN_HEADER_LEN
  <2> DEFINE n == 4 * s.data_offset + Len(s.payload)
  <2>3. B = tcp_serialize_ipv4(s, m.from, m.to, EthernetMaxPayload)
    BY <1>3 DEF BodyOf
  <2> HIDE DEF B
  <2>4. /\ n > EthernetMaxPayload => B = <<>>
        /\ n <= EthernetMaxPayload =>
             /\ TcpAt(B, s) /\ Len(B) \in Word
             /\ Sealed(pseudo_header_sum(m.from, m.to, TCP_PROTOCOL, Len(B)), B)
    BY <1>1, <1>3, <2>3, TcpBody
  <2>5. TcpAt(B, s) => B \in Seq(Byte) /\ Len(B) = n
    BY DEF TcpAt
  <2>6. n \in Nat /\ n >= 20 /\ HeaderLen(m) \in Nat /\ HeaderLen(m) + Len(s.payload) = 20 + n
    <3> DEFINE o == s.data_offset
               k == Len(s.payload)
    <3>1. o \in Nat /\ 5 <= o /\ k \in Nat /\ HeaderLen(m) = 20 + 20 + (4 * o - 20)
      BY <2>1, <2>2
    <3> HIDE DEF o, k
    <3>2. 4 * o + k \in Nat /\ 4 * o + k >= 20 /\ HeaderLen(m) \in Nat /\ HeaderLen(m) + k = 20 + (4 * o + k)
      BY <3>1
    <3> QED
      BY <3>2 DEF o, k
  <2> HIDE DEF n
  <2>7. CASE n > EthernetMaxPayload
    BY <1>1, <1>2, <1>3, <2>1, <2>4, <2>6, <2>7 DEF B
  <2>8. CASE ~(n > EthernetMaxPayload)
    <3>1. /\ TcpAt(B, s) /\ Len(B) \in Word /\ B \in Seq(Byte) /\ Len(B) = n /\ B # <<>>
          /\ Sealed(pseudo_header_sum(m.from, m.to, TCP_PROTOCOL, Len(B)), B)
      BY <1>2, <2>4, <2>5, <2>6, <2>8
    <3>2. BodyAt(B, m)
      BY <1>3, <3>1 DEF BodyAt
    <3> QED
      BY <1>1, <1>3, <2>1, <2>6, <3>1, <3>2 DEF B
  <2> QED
    BY <2>7, <2>8
<1>4. CASE m.kind = "udp" /\ IsUdp(s)
  <2>1. Len(s.payload) \in Nat
    BY <1>4 DEF IsUdp, UdpPacket
  <2>2. HeaderLen(m) = 20 + 8
    BY <1>4 DEF HeaderLen, IPV4_MIN_HEADER_LEN, UDP_HEADER_LEN
  <2> DEFINE n == 8 + Len(s.payload)
  <2>3. B = udp_serialize_ipv4(s, m.from, m.to, MaxPacketLen)
    BY <1>4 DEF BodyOf
  <2> HIDE DEF B
  <2>4. /\ n > MaxPacketLen => B = <<>>
        /\ n <= MaxPacketLen =>
             /\ UdpAt(B, s) /\ Len(B) \in Word /\ read_u16_be(B, 6) # 0
             /\ Sealed(pseudo_header_sum(m.from, m.to, UDP_PROTOCOL, Len(B)), B)
    BY <1>1, <1>4, <2>3, UdpBody
  <2>5. UdpAt(B, s) => B \in Seq(Byte) /\ Len(B) = n
    BY DEF UdpAt
  <2>6. n \in Nat /\ n >= 8 /\ HeaderLen(m) \in Nat /\ HeaderLen(m) + Len(s.payload) = 20 + n
    BY <2>1, <2>2
  <2> HIDE DEF n
  <2>7. CASE n > MaxPacketLen
    BY <1>1, <1>2, <1>4, <2>1, <2>4, <2>6, <2>7 DEF B
  <2>8. CASE ~(n > MaxPacketLen)
    <3>1. /\ UdpAt(B, s) /\ Len(B) \in Word /\ read_u16_be(B, 6) # 0
          /\ B \in Seq(Byte) /\ Len(B) = n /\ B # <<>>
          /\ Sealed(pseudo_header_sum(m.from, m.to, UDP_PROTOCOL, Len(B)), B)
      BY <1>2, <2>4, <2>5, <2>6, <2>8
    <3>2. BodyAt(B, m)
      BY <1>4, <3>1 DEF BodyAt
    <3> QED
      BY <1>1, <1>4, <2>1, <2>6, <3>1, <3>2 DEF B
  <2> QED
    BY <2>7, <2>8
<1>5. CASE m.kind = "icmp" /\ s \in IcmpPacket
  <2>1. Len(s.payload) \in Nat
    BY <1>5 DEF IcmpPacket
  <2>2. HeaderLen(m) = 20 + 8
    BY <1>5 DEF HeaderLen, IPV4_MIN_HEADER_LEN, ICMP_ECHO_HEADER_LEN
  <2> DEFINE n == 8 + Len(s.payload)
  <2>3. B = icmp_serialize(s, MaxPacketLen)
    BY <1>5 DEF BodyOf
  <2> HIDE DEF B
  <2>4. /\ n > MaxPacketLen => B = <<>>
        /\ n <= MaxPacketLen => IcmpAt(B, s) /\ Sealed(0, B)
    BY <1>5, <2>3, IcmpBody
  <2>5. IcmpAt(B, s) => B \in Seq(Byte) /\ Len(B) = n
    BY DEF IcmpAt
  <2>6. n \in Nat /\ n >= 8 /\ HeaderLen(m) \in Nat /\ HeaderLen(m) + Len(s.payload) = 20 + n
    BY <2>1, <2>2
  <2> HIDE DEF n
  <2>7. CASE n > MaxPacketLen
    BY <1>1, <1>2, <1>5, <2>1, <2>4, <2>6, <2>7 DEF B
  <2>8. CASE ~(n > MaxPacketLen)
    <3>1. IcmpAt(B, s) /\ Sealed(0, B) /\ B \in Seq(Byte) /\ Len(B) = n /\ B # <<>>
      BY <1>2, <2>4, <2>5, <2>6, <2>8
    <3>2. BodyAt(B, m)
      BY <1>5, <3>1 DEF BodyAt
    <3> QED
      BY <1>1, <1>5, <2>1, <2>6, <3>1, <3>2 DEF B
  <2> QED
    BY <2>7, <2>8
<1> QED
  BY <1>1, <1>3, <1>4, <1>5

\* What is known of the frame of a message with header H and body B.
Packed(F, H, B, m) ==
  /\ Header(H, m.from, m.to, ProtocolOf(m.kind), Len(B)) /\ Sealed(0, H)
  /\ Carries(F, H, B) /\ BodyAt(B, m) /\ 20 + Len(B) <= EthernetMaxPayload

\* A message over IPv4 goes into a frame unless it is too long.
LEMMA MessageFrame ==
  ASSUME NEW m \in Messages, m.kind # "arp"
  PROVE  /\ (FrameOf(m) = <<>>) <=> (HeaderLen(m) + Len(m.packet.payload) > EthernetMaxPayload)
         /\ FrameOf(m) # <<>> => \E H, B : Packed(FrameOf(m), H, B, m)
<1> DEFINE B == BodyOf(m)
           n == HeaderLen(m) + Len(m.packet.payload)
           pr == ProtocolOf(m.kind)
           id == IdentificationOf(m.kind)
           F == FrameOf(m)
<1>1. /\ IsIp(m.from) /\ IsIp(m.to) /\ n \in Nat
      /\ B = <<>> => n > EthernetMaxPayload
      /\ B # <<>> => BodyAt(B, m) /\ 20 + Len(B) = n
  BY BodyIs
<1>2. F = ipv4_frame(m, pr, B, id)
  BY DEF FrameOf
<1>3. pr \in Byte
  BY SmallWords DEF ProtocolOf, IPV4_PROTOCOL_TCP, IPV4_PROTOCOL_UDP, IPV4_PROTOCOL_ICMP
<1>4. id \in Word
  BY DEF IdentificationOf, Word
<1>5. EthernetMaxPayload \in Nat
  BY EthernetAssumption
<1> HIDE DEF B, n, pr, id, F
<1>6. CASE B = <<>>
  <2>1. F = <<>>
    BY <1>2, <1>6 DEF ipv4_frame
  <2> QED
    BY <1>1, <1>6, <2>1 DEF F, n
<1>7. CASE B # <<>>
  <2>1. B \in Seq(Byte) /\ BodyAt(B, m) /\ 20 + Len(B) = n
    BY <1>1, <1>7 DEF BodyAt
  <2>2. /\ 20 + Len(B) > EthernetMaxPayload => F = <<>>
        /\ 20 + Len(B) <= EthernetMaxPayload =>
             \E H : Header(H, m.from, m.to, pr, Len(B)) /\ Sealed(0, H) /\ Carries(F, H, B)
    BY <1>1, <1>2, <1>3, <1>4, <1>7, <2>1, Ipv4FrameIs, Zenon
  <2>3. CASE n > EthernetMaxPayload
    BY <2>1, <2>2, <2>3 DEF F, n
  <2>4. CASE ~(n > EthernetMaxPayload)
    <3>1. 20 + Len(B) <= EthernetMaxPayload
      BY <1>1, <1>5, <2>1, <2>4
    <3>2. PICK H : Header(H, m.from, m.to, pr, Len(B)) /\ Sealed(0, H) /\ Carries(F, H, B)
      BY <2>2, <3>1
    <3>3. Packed(F, H, B, m)
      BY <2>1, <3>1, <3>2 DEF Packed, pr
    <3>4. F # <<>>
      <4>1. Len(F) = 34 + Len(B) /\ Len(B) \in Nat
        BY <2>1, <3>2 DEF Carries
      <4> QED
        BY <4>1
    <3> QED
      BY <2>4, <3>3, <3>4 DEF F, n
  <2> QED
    BY <2>3, <2>4
<1> QED
  BY <1>6, <1>7

\* An ARP packet goes into a frame.
LEMMA ArpFrame ==
  ASSUME NEW m \in Messages, m.kind = "arp", FrameOf(m) # <<>>
  PROVE  /\ IsArp(m.packet) /\ m.packet.sender_ip = m.from /\ m.packet.target_ip = m.to
         /\ \E A : /\ ArpAt(A, m.packet) /\ Frames(FrameOf(m), ETHERNET_TYPE_ARP, A)
                   /\ 28 <= EthernetMaxPayload
<1> DEFINE A == BodyOf(m)
           F == FrameOf(m)
<1>1. IsArp(m.packet) /\ m.packet.sender_ip = m.from /\ m.packet.target_ip = m.to
  BY MessageAssumption DEF IsMessage, IsArp
<1>2. A = arp_serialize(m.packet, ARP_PACKET_LEN) /\ F = ethernet_frame(Broadcast, ETHERNET_TYPE_ARP, A)
  BY DEF BodyOf, FrameOf
<1> HIDE DEF A
<1>3. ArpAt(A, m.packet)
  BY <1>1, <1>2, ArpBody, Zenon
<1>4. A \in Seq(Byte) /\ Len(A) = 28 /\ A # <<>> /\ EthernetMaxPayload \in Nat
  <2>1. A \in Seq(Byte) /\ Len(A) = 28
    BY <1>3, Zenon DEF ArpAt
  <2>2. Len(<<>>) = 0
    OBVIOUS
  <2>3. A # <<>>
    <3> SUFFICES ASSUME A = <<>> PROVE FALSE
      OBVIOUS
    <3>1. Len(A) = 0
      BY <2>2
    <3> QED
      BY <2>1, <3>1
  <2> QED
    BY <2>1, <2>3, EthernetAssumption
<1>5. Broadcast \in Seq(Byte) /\ Len(Broadcast) = 6 /\ ETHERNET_TYPE_ARP \in Word
  <2>1. 255 \in Byte /\ 2054 \in Word
    BY SmallWords
  <2> QED
    BY <2>1 DEF Broadcast, ETHERNET_TYPE_ARP
<1>6. /\ Len(A) > EthernetMaxPayload => F = <<>>
      /\ Len(A) <= EthernetMaxPayload => Frames(F, ETHERNET_TYPE_ARP, A)
  <2> HIDE DEF F
  <2> QED
    BY <1>2, <1>4, <1>5, EthernetFrameIs, Zenon
<1>7. Len(A) <= EthernetMaxPayload
  BY <1>4, <1>6
<1> QED
  BY <1>1, <1>3, <1>4, <1>6, <1>7

(***************************************************************************)
(* What was written is read back.                                          *)
(***************************************************************************)
\* A segment.
LEMMA TcpRead ==
  ASSUME NEW s, IsTcp(s), NEW z, TcpAt(z, s), Len(z) <= MaxPacketLen
  PROVE  /\ tcp_parse(z).rc = 0 /\ Content(tcp_parse(z)) = Content(s)
         /\ tcp_parse(z).source_port = s.source_port
         /\ tcp_parse(z).destination_port = s.destination_port
<1> DEFINE n == s.data_offset
           h == n * 4
           r == TcpFields(z, h)
<1>1. /\ s \in TcpPacket /\ n \in Nat /\ 5 <= n /\ n <= 15 /\ s.flags \in Byte
      /\ s.source_port \in Word /\ s.destination_port \in Word
      /\ s.sequence_number \in Word \X Word /\ s.acknowledgment_number \in Word \X Word
      /\ s.window_size \in Word /\ s.urgent_pointer \in Word
      /\ s.options \in Seq(Byte) /\ s.payload \in Seq(Byte) /\ Len(s.options) = 4 * n - 20
  BY SMTT(30) DEF IsTcp, TcpPacket, TCP_MIN_HEADER_LEN
<1>2. /\ z \in Seq(Byte) /\ Len(z) = 4 * n + Len(s.payload) /\ Len(z) \in Nat
      /\ Len(s.payload) \in Nat
  <2>1. z \in Seq(Byte) /\ Len(z) = 4 * n + Len(s.payload)
    BY Zenon DEF TcpAt
  <2> QED
    BY <1>1, <2>1
<1> HIDE DEF n, h, r
<1>3. h = 4 * n /\ h \in Nat
  BY <1>1 DEF h
<1>4. z[13] = n * 16 /\ z[14] = s.flags
  <2> DEFINE g == <<n * 16, s.flags>>
  <2>1. Occurs(z, 12, g)
    BY Zenon DEF TcpAt, n
  <2>2. Len(g) = 2 /\ g[1] = n * 16 /\ g[2] = s.flags
    OBVIOUS
  <2> HIDE DEF g
  <2>3. z[12 + 1] = g[1] /\ z[12 + 2] = g[2]
    BY <2>1, <2>2 DEF Occurs
  <2> QED
    BY <2>2, <2>3
<1>5. z[13] \div 16 = n
  BY <1>1, <1>4
<1>6. /\ read_u16_be(z, 0) = s.source_port /\ read_u16_be(z, 2) = s.destination_port
      /\ read_u16_be(z, 14) = s.window_size /\ read_u16_be(z, 18) = s.urgent_pointer
  <2>1. 0 \in Nat /\ 2 \in Nat /\ 14 \in Nat /\ 18 \in Nat
    OBVIOUS
  <2> QED
    BY <1>1, <2>1, WordRead, Zenon DEF TcpAt
<1>7. /\ read_u32_be(z, 4) = s.sequence_number /\ read_u32_be(z, 8) = s.acknowledgment_number
  <2>1. 4 \in Nat /\ 8 \in Nat
    OBVIOUS
  <2> QED
    BY <1>1, <1>2, <2>1, LongRead, Zenon DEF TcpAt
<1>8. Slice(z, TCP_MIN_HEADER_LEN, h - TCP_MIN_HEADER_LEN) = s.options
  <2>1. Occurs(z, 20, s.options)
    BY Zenon DEF TcpAt
  <2>2. Slice(z, 20, Len(s.options)) = s.options
    BY <1>1, <1>2, <2>1, SliceOf, Zenon
  <2>3. h - TCP_MIN_HEADER_LEN = Len(s.options) /\ TCP_MIN_HEADER_LEN = 20
    BY <1>1, <1>3 DEF TCP_MIN_HEADER_LEN
  <2> QED
    BY <2>2, <2>3, Zenon
<1>9. From(z, h) = s.payload
  <2>1. Occurs(z, h, s.payload)
    BY <1>3, Zenon DEF TcpAt, n
  <2>2. Slice(z, h, Len(s.payload)) = s.payload
    BY <1>1, <1>2, <2>1, SliceOf, Zenon
  <2>3. h <= Len(z) /\ Len(z) - h = Len(s.payload)
    BY <1>2, <1>3
  <2>4. From(z, h) = Slice(z, h, Len(z) - h)
    BY <1>2, <1>3, <2>3, FromIs, Zenon
  <2> QED
    BY <2>2, <2>3, <2>4, Zenon
<1>10. tcp_parse(z) = r
  <2>1. /\ ~(Len(z) < TCP_MIN_HEADER_LEN) /\ ~(n < 5 \/ h > Len(z))
        /\ ~(Len(z) - h > TCP_MAX_PAYLOAD_LEN)
    <3> DEFINE L == Len(z)
               k == Len(s.payload)
    <3>1. /\ L \in Nat /\ k \in Nat /\ L = 4 * n + k /\ L <= MaxPacketLen /\ MaxPacketLen \in Nat
      BY <1>2, ChecksumAssumption, SMT
    <3>2. n \in Nat /\ 5 <= n
      BY <1>1
    <3> HIDE DEF L, k
    <3>3. ~(L < 20) /\ ~(n < 5 \/ h > L) /\ ~(L - h > MaxPacketLen - 20)
      BY <1>3, <3>1, <3>2, SMT
    <3> QED
      BY <3>3, SMT DEF L, TCP_MIN_HEADER_LEN, TCP_MAX_PAYLOAD_LEN
  <2> QED
    BY <1>5, <2>1, Zenon DEF tcp_parse, r, h
<1>11. r = [rc |-> 0, source_port |-> s.source_port, destination_port |-> s.destination_port,
            sequence_number |-> s.sequence_number, acknowledgment_number |-> s.acknowledgment_number,
            data_offset |-> n, flags |-> s.flags, window_size |-> s.window_size,
            checksum |-> read_u16_be(z, 16), urgent_pointer |-> s.urgent_pointer,
            options |-> s.options, payload |-> s.payload]
  BY <1>4, <1>5, <1>6, <1>7, <1>8, <1>9, Zenon DEF TcpFields, r
<1>12. [r EXCEPT !.checksum = 0] = [s EXCEPT !.checksum = 0]
  BY <1>1, <1>11, SMTT(60) DEF TcpPacket, n
<1>13. "checksum" \in DOMAIN r /\ "checksum" \in DOMAIN s
  BY <1>1, <1>11 DEF TcpPacket
<1>14. r.rc = 0 /\ r.source_port = s.source_port /\ r.destination_port = s.destination_port
  BY <1>11
<1> QED
  BY <1>10, <1>12, <1>13, <1>14, Zenon DEF Content

\* A datagram.
LEMMA UdpRead ==
  ASSUME NEW s, IsUdp(s), NEW z, UdpAt(z, s), Len(z) <= MaxPacketLen
  PROVE  /\ udp_parse(z).rc = 0 /\ Content(udp_parse(z)) = Content(s)
         /\ udp_parse(z).source_port = s.source_port
         /\ udp_parse(z).destination_port = s.destination_port
<1> DEFINE r == [rc |-> 0, source_port |-> s.source_port, destination_port |-> s.destination_port,
                 length |-> s.length, checksum |-> read_u16_be(z, 6), payload |-> s.payload]
<1>1. /\ s \in UdpPacket /\ s.source_port \in Word /\ s.destination_port \in Word
      /\ s.length \in Word /\ s.payload \in Seq(Byte) /\ s.length = 8 + Len(s.payload)
  BY DEF IsUdp, UdpPacket, UDP_HEADER_LEN
<1>2. z \in Seq(Byte) /\ Len(z) = 8 + Len(s.payload) /\ Len(s.payload) \in Nat
  <2>1. z \in Seq(Byte) /\ Len(z) = 8 + Len(s.payload)
    BY Zenon DEF UdpAt
  <2> QED
    BY <1>1, <2>1
<1>3. /\ read_u16_be(z, 0) = s.source_port /\ read_u16_be(z, 2) = s.destination_port
      /\ read_u16_be(z, 4) = s.length
  <2>1. 0 \in Nat /\ 2 \in Nat /\ 4 \in Nat
    OBVIOUS
  <2> QED
    BY <1>1, <2>1, WordRead, SMT DEF UdpAt
<1>4. Slice(z, UDP_HEADER_LEN, s.length - UDP_HEADER_LEN) = s.payload
  <2>1. Occurs(z, 8, s.payload)
    BY Zenon DEF UdpAt
  <2>2. Slice(z, 8, Len(s.payload)) = s.payload
    BY <1>1, <1>2, <2>1, SliceOf, Zenon
  <2>3. s.length - UDP_HEADER_LEN = Len(s.payload) /\ UDP_HEADER_LEN = 8
    BY <1>1, <1>2 DEF UDP_HEADER_LEN
  <2> QED
    BY <2>2, <2>3, Zenon
<1>5. udp_parse(z) = r
  <2>1. /\ ~(Len(z) < UDP_HEADER_LEN) /\ ~(s.length < UDP_HEADER_LEN \/ s.length > Len(z))
        /\ ~(s.length - UDP_HEADER_LEN > UDP_MAX_PAYLOAD_LEN)
    BY <1>1, <1>2, ChecksumAssumption DEF UDP_HEADER_LEN, UDP_MAX_PAYLOAD_LEN
  <2> QED
    BY <1>3, <1>4, <2>1, Zenon DEF udp_parse, r
<1>6. [r EXCEPT !.checksum = 0] = [s EXCEPT !.checksum = 0]
  BY <1>1 DEF UdpPacket
<1>7. "checksum" \in DOMAIN r /\ "checksum" \in DOMAIN s
  BY <1>1 DEF UdpPacket
<1>8. r.rc = 0 /\ r.source_port = s.source_port /\ r.destination_port = s.destination_port
  OBVIOUS
<1> HIDE DEF r
<1> QED
  BY <1>5, <1>6, <1>7, <1>8, Zenon DEF Content

\* An echo message.
LEMMA IcmpRead ==
  ASSUME NEW s \in IcmpPacket, NEW z, IcmpAt(z, s), Sealed(0, z), Len(z) <= MaxPacketLen
  PROVE  /\ icmp_parse(z).rc = 0 /\ Content(icmp_parse(z)) = Content(s)
         /\ icmp_parse(z).type = s.type /\ icmp_parse(z).identifier = s.identifier
         /\ icmp_parse(z).sequence = s.sequence
<1> DEFINE r == [rc |-> 0, type |-> s.type, code |-> s.code, checksum |-> read_u16_be(z, 2),
                 identifier |-> s.identifier, sequence |-> s.sequence, payload |-> s.payload]
<1>1. /\ s.type \in EchoTypes /\ s.code = ICMP_CODE_ECHO /\ s.identifier \in Word
      /\ s.sequence \in Word /\ s.payload \in Seq(Byte)
  BY DEF IcmpPacket
<1>2. /\ z \in Seq(Byte) /\ Len(z) = 8 + Len(s.payload) /\ Len(s.payload) \in Nat
      /\ z[1] = s.type /\ z[2] = s.code
  <2>1. z \in Seq(Byte) /\ Len(z) = 8 + Len(s.payload) /\ z[1] = s.type /\ z[2] = s.code
    BY Zenon DEF IcmpAt
  <2> QED
    BY <1>1, <2>1
<1>3. /\ read_u16_be(z, 4) = s.identifier /\ read_u16_be(z, 6) = s.sequence
  <2>1. 4 \in Nat /\ 6 \in Nat
    OBVIOUS
  <2> QED
    BY <1>1, <2>1, WordRead, Zenon DEF IcmpAt
<1>4. From(z, ICMP_ECHO_HEADER_LEN) = s.payload
  <2>1. Occurs(z, 8, s.payload)
    BY Zenon DEF IcmpAt
  <2>2. Slice(z, 8, Len(s.payload)) = s.payload
    BY <1>1, <1>2, <2>1, SliceOf, Zenon
  <2>3. ICMP_ECHO_HEADER_LEN = 8 /\ 8 \in Nat /\ 8 <= Len(z) /\ Len(z) - 8 = Len(s.payload)
    BY <1>2 DEF ICMP_ECHO_HEADER_LEN
  <2>4. From(z, 8) = Slice(z, 8, Len(z) - 8)
    BY <1>2, <2>3, FromIs, Zenon
  <2> QED
    BY <2>2, <2>3, <2>4, Zenon
<1>5. icmp_checksum(z) = 0
  <2>1. 0 \in Word
    BY SmallWords
  <2>2. add_bytes(0, z) \in Word /\ add_bytes(0, z) = 65535
    BY <1>2, <2>1, SumType DEF Sealed
  <2> QED
    BY <2>2, FinishSeals DEF icmp_checksum
<1>6. icmp_parse(z) = r
  <2>1. /\ ~(Len(z) < ICMP_ECHO_HEADER_LEN) /\ ~(z[1] \notin EchoTypes) /\ ~(z[2] # ICMP_CODE_ECHO)
        /\ ~(Len(z) - ICMP_ECHO_HEADER_LEN > ICMP_MAX_PAYLOAD_LEN)
    BY <1>1, <1>2, ChecksumAssumption DEF ICMP_ECHO_HEADER_LEN, ICMP_MAX_PAYLOAD_LEN
  <2> QED
    BY <1>2, <1>3, <1>4, <1>5, <2>1, Zenon DEF icmp_parse, r
<1>7. [r EXCEPT !.checksum = 0] = [s EXCEPT !.checksum = 0]
  BY DEF IcmpPacket
<1>8. "checksum" \in DOMAIN r /\ "checksum" \in DOMAIN s
  BY DEF IcmpPacket
<1>9. r.rc = 0 /\ r.type = s.type /\ r.identifier = s.identifier /\ r.sequence = s.sequence
  OBVIOUS
<1> HIDE DEF r
<1> QED
  BY <1>6, <1>7, <1>8, <1>9, Zenon DEF Content

\* An ARP packet, with or without padding behind it.
LEMMA ArpRead ==
  ASSUME NEW s, IsArp(s), NEW A, ArpAt(A, s), NEW z \in Seq(Byte), Occurs(z, 0, A)
  PROVE  arp_parse(z) = s
<1>1. /\ s \in ArpPacket /\ s.hardware_type = ARP_ETHERNET /\ s.protocol_type = ARP_PROTOCOL_IPV4
      /\ s.hardware_addr_len = ARP_HARDWARE_ADDR_LEN /\ s.protocol_addr_len = ARP_PROTOCOL_ADDR_LEN
      /\ s.opcode \in {ARP_OPCODE_REQUEST, ARP_OPCODE_REPLY}
      /\ s.sender_mac \in Seq(Byte) /\ Len(s.sender_mac) = 6
      /\ s.sender_ip \in Seq(Byte) /\ Len(s.sender_ip) = 4
      /\ s.target_mac \in Seq(Byte) /\ Len(s.target_mac) = 6
      /\ s.target_ip \in Seq(Byte) /\ Len(s.target_ip) = 4
  BY DEF IsArp, ArpPacket, IsMac, IsIp, ARP_HARDWARE_ADDR_LEN, ARP_PROTOCOL_ADDR_LEN
<1>2. /\ A \in Seq(Byte) /\ Len(A) = 28
      /\ read_u16_be(A, 0) = s.hardware_type /\ read_u16_be(A, 2) = s.protocol_type
      /\ A[5] = s.hardware_addr_len /\ A[6] = s.protocol_addr_len /\ read_u16_be(A, 6) = s.opcode
      /\ Occurs(A, 8, s.sender_mac) /\ Occurs(A, 14, s.sender_ip)
      /\ Occurs(A, 18, s.target_mac) /\ Occurs(A, 24, s.target_ip)
  BY Zenon DEF ArpAt
<1>3. Len(z) \in Nat /\ 28 <= Len(z) /\ \A j \in 1 .. 28 : z[j] = A[j]
  <2>1. \A j \in 1 .. 28 : z[0 + j] = A[j]
    BY <1>2 DEF Occurs
  <2> QED
    BY <1>2, <2>1 DEF Occurs
<1>4. /\ read_u16_be(z, 0) = s.hardware_type /\ read_u16_be(z, 2) = s.protocol_type
      /\ z[5] = s.hardware_addr_len /\ z[6] = s.protocol_addr_len /\ read_u16_be(z, 6) = s.opcode
  <2>1. /\ z[0 + 1] = A[0 + 1] /\ z[0 + 2] = A[0 + 2] /\ z[2 + 1] = A[2 + 1] /\ z[2 + 2] = A[2 + 2]
        /\ z[5] = A[5] /\ z[6] = A[6] /\ z[6 + 1] = A[6 + 1] /\ z[6 + 2] = A[6 + 2]
    BY <1>3
  <2> QED
    BY <1>2, <2>1, Zenon DEF read_u16_be
<1>5. /\ Occurs(z, 8, s.sender_mac) /\ Occurs(z, 14, s.sender_ip)
      /\ Occurs(z, 18, s.target_mac) /\ Occurs(z, 24, s.target_ip)
  <2>1. \A u \in Seq(Byte) : \A p : Occurs(A, p, u) => Occurs(z, p, u)
    BY <1>2, HeadIn, Zenon
  <2> QED
    BY <1>1, <1>2, <2>1
<1>6. Slice(z, 8, 6) = s.sender_mac /\ Slice(z, 18, 6) = s.target_mac
  <2>1. \A u \in Seq(Byte) : \A p : Occurs(z, p, u) => Slice(z, p, Len(u)) = u
    BY <1>2, SliceOf, Zenon
  <2> QED
    BY <1>1, <1>5, <2>1
<1>7. Slice(z, 14, 4) = s.sender_ip /\ Slice(z, 24, 4) = s.target_ip
  <2>1. \A u \in Seq(Byte) : \A p : Occurs(z, p, u) => Slice(z, p, Len(u)) = u
    BY <1>2, SliceOf, Zenon
  <2> QED
    BY <1>1, <1>5, <2>1
<1> DEFINE r == [rc |-> 0, hardware_type |-> s.hardware_type, protocol_type |-> s.protocol_type,
                 hardware_addr_len |-> s.hardware_addr_len, protocol_addr_len |-> s.protocol_addr_len,
                 opcode |-> s.opcode, sender_mac |-> s.sender_mac, sender_ip |-> s.sender_ip,
                 target_mac |-> s.target_mac, target_ip |-> s.target_ip]
<1>8. arp_parse(z) = r
  <2>1. ~(Len(z) < ARP_PACKET_LEN)
    BY <1>3 DEF ARP_PACKET_LEN
  <2> QED
    BY <1>1, <1>4, <1>6, <1>7, <2>1, Zenon DEF arp_parse, r
<1>9. r = s
  BY <1>1 DEF ArpPacket
<1> QED
  BY <1>8, <1>9, Zenon

(***************************************************************************)
(* What a receive loop takes.                                              *)
(***************************************************************************)
\* The data is a frame of this type.
InFrame(D, type) ==
  /\ 14 <= Len(D) /\ Len(D) - 14 <= EthernetMaxPayload /\ read_u16_be(D, 12) = type

\* The lengths of header and packet, as the header says.
HeaderSize(Q) == (Q[1] % 16) * 4
PacketSize(Q) == read_u16_be(Q, 2)

\* The packet can be parsed.
Fine(Q) ==
  /\ 20 <= Len(Q) /\ Q[1] \div 16 = 4 /\ Q[1] % 16 >= 5 /\ HeaderSize(Q) <= Len(Q)
  /\ HeaderSize(Q) <= PacketSize(Q) /\ PacketSize(Q) <= Len(Q)
  /\ Sealed(0, Slice(Q, 0, HeaderSize(Q)))

\* It is a packet for this host.
Good(Q, pr) ==
  Fine(Q) /\ Q[10] = pr /\ Slice(Q, 12, 4) = Peer /\ Slice(Q, 16, 4) = Self

\* Its payload.
InnerOf(Q) == Slice(Q, HeaderSize(Q), PacketSize(Q) - HeaderSize(Q))

\* What ethernet_parse returns.
LEMMA EthernetRead ==
  ASSUME NEW D \in Seq(Byte)
  PROVE  /\ (14 <= Len(D) /\ Len(D) - 14 <= EthernetMaxPayload) =>
              /\ ethernet_parse(D).rc = 0 /\ ethernet_parse(D).ethertype = read_u16_be(D, 12)
              /\ ethernet_parse(D).payload = From(D, 14)
         /\ ~(14 <= Len(D) /\ Len(D) - 14 <= EthernetMaxPayload) => ethernet_parse(D).rc # 0
<1>1. Len(D) \in Nat /\ EthernetMaxPayload \in Nat
  BY EthernetAssumption
<1>2. CASE Len(D) < 14
  <2>1. ethernet_parse(D) = Fail(-2)
    BY <1>2 DEF ethernet_parse, ETHERNET_HEADER_LEN
  <2>2. ethernet_parse(D).rc # 0 /\ ~(14 <= Len(D))
    BY <1>1, <1>2, <2>1 DEF Fail
  <2> QED
    BY <2>2
<1>3. CASE ~(Len(D) < 14) /\ Len(D) - 14 > EthernetMaxPayload
  <2>1. ethernet_parse(D) = Fail(-3)
    BY <1>3 DEF ethernet_parse, ETHERNET_HEADER_LEN
  <2>2. ethernet_parse(D).rc # 0 /\ ~(Len(D) - 14 <= EthernetMaxPayload)
    BY <1>1, <1>3, <2>1 DEF Fail
  <2> QED
    BY <2>2
<1>4. CASE ~(Len(D) < 14) /\ ~(Len(D) - 14 > EthernetMaxPayload)
  <2> DEFINE a == Slice(D, 0, 6)
             b == Slice(D, 6, 6)
             c == read_u16_be(D, 12)
             d == From(D, 14)
  <2>1. ethernet_parse(D) = [rc |-> 0, destination |-> a, source |-> b, ethertype |-> c, payload |-> d]
    BY <1>4 DEF ethernet_parse, ETHERNET_HEADER_LEN
  <2> HIDE DEF a, b, c, d
  <2>2. ethernet_parse(D).rc = 0 /\ ethernet_parse(D).ethertype = c /\ ethernet_parse(D).payload = d
    BY <2>1
  <2>3. 14 <= Len(D) /\ Len(D) - 14 <= EthernetMaxPayload
    BY <1>1, <1>4
  <2> QED
    BY <2>2, <2>3 DEF c, d
<1> QED
  BY <1>2, <1>3, <1>4

\* What ipv4_parse returns.
LEMMA Ipv4Read ==
  ASSUME NEW Q \in Seq(Byte), Len(Q) <= EthernetMaxPayload
  PROVE  /\ Fine(Q) => /\ ipv4_parse(Q).rc = 0 /\ ipv4_parse(Q).protocol = Q[10]
                       /\ ipv4_parse(Q).source_ip = Slice(Q, 12, 4)
                       /\ ipv4_parse(Q).destination_ip = Slice(Q, 16, 4)
                       /\ ipv4_parse(Q).payload = InnerOf(Q)
         /\ ~Fine(Q) => ipv4_parse(Q).rc # 0
<1> DEFINE ip == ipv4_parse(Q)
           L == Len(Q)
           v == Q[1] \div 16
           i == Q[1] % 16
           h == (Q[1] % 16) * 4
           n == read_u16_be(Q, 2)
           S == Slice(Q, 0, h)
           c == ipv4_checksum(S)
<1>1. Fine(Q) <=> /\ 20 <= L /\ v = 4 /\ i >= 5 /\ h <= L /\ h <= n /\ n <= L /\ Sealed(0, S)
  BY Zenon DEF Fine, HeaderSize, PacketSize
<1>2. /\ L \in Nat /\ L <= EthernetMaxPayload /\ EthernetMaxPayload \in Nat /\ MaxPacketLen \in Nat
      /\ EthernetMaxPayload <= MaxPacketLen
  BY EthernetAssumption, ChecksumAssumption, FramePathAssumption
<1>3. ip = IF L < 20 THEN Fail(-2) ELSE IF v # 4 THEN Fail(-3)
           ELSE IF i < 5 \/ L < h THEN Fail(-4) ELSE IF n < h \/ n > L THEN Fail(-5)
           ELSE IF c # 0 THEN Fail(-6) ELSE IF n - h > IPV4_MAX_PAYLOAD_LEN THEN Fail(-7)
           ELSE Ipv4Fields(Q, h, n)
  BY Zenon DEF ipv4_parse, IPV4_MIN_HEADER_LEN, IPV4_MIN_IHL
<1>4. /\ Fail(-2).rc # 0 /\ Fail(-3).rc # 0 /\ Fail(-4).rc # 0
      /\ Fail(-5).rc # 0 /\ Fail(-6).rc # 0
  BY DEF Fail
<1>5. L < 20 => ip.rc # 0 /\ ~(20 <= L)
  BY <1>2, <1>3, <1>4
<1>6. ASSUME ~(L < 20)
      PROVE  /\ 20 <= L /\ i \in Nat /\ i <= 15 /\ n \in Nat /\ n <= 65535 /\ v \in Nat /\ h = i * 4
  <2> DEFINE a == Q[1]
             b == Q[2 + 1]
             e == Q[2 + 2]
  <2>1. a \in Nat /\ a <= 255 /\ b \in Nat /\ b <= 255 /\ e \in Nat /\ e <= 255
    <3>1. 1 \in 1 .. L /\ 2 + 1 \in 1 .. L /\ 2 + 2 \in 1 .. L
      BY <1>2, <1>6
    <3> QED
      BY <3>1, BytesOf
  <2>2. n = b * 256 + e /\ v = a \div 16 /\ i = a % 16
    BY DEF read_u16_be
  <2>3. h = i * 4
    OBVIOUS
  <2> HIDE DEF a, b, e, v, i, h, n
  <2> QED
    BY <1>2, <1>6, <2>1, <2>2, <2>3
<1>7. ASSUME ~(L < 20), ~(L < h), i >= 5 PROVE (c = 0) <=> Sealed(0, S)
  <2>1. i \in Nat /\ h = i * 4
    BY <1>6, <1>7
  <2> HIDE DEF i, h
  <2>2. h \in Nat /\ 0 \in Nat /\ 0 + h <= L /\ 0 \in Word
    BY <1>2, <1>7, <2>1, SmallWords
  <2>3. S \in Seq(Byte)
    BY <2>2, SliceIs
  <2> HIDE DEF S
  <2>4. add_bytes(0, S) \in Word
    BY <2>2, <2>3, SumType
  <2> QED
    BY <2>4, FinishSeals DEF c, ipv4_checksum, Sealed
<1> HIDE DEF ip, L, v, i, h, n, S, c
<1>8. CASE ~(L < 20) /\ (v # 4 \/ (i < 5 \/ L < h) \/ (n < h \/ n > L))
  <2>1. ip.rc # 0
    BY <1>3, <1>4, <1>8
  <2>2. ~(20 <= L /\ v = 4 /\ i >= 5 /\ h <= L /\ h <= n /\ n <= L)
    BY <1>2, <1>6, <1>8
  <2> QED
    BY <1>1, <2>1, <2>2 DEF ip
<1>9. CASE ~(L < 20) /\ v = 4 /\ ~(i < 5 \/ L < h) /\ ~(n < h \/ n > L) /\ ~Sealed(0, S)
  <2>1. c # 0
    BY <1>2, <1>6, <1>7, <1>9
  <2>2. ip.rc # 0
    BY <1>3, <1>4, <1>9, <2>1
  <2> QED
    BY <1>1, <1>9, <2>2 DEF ip
<1>10. CASE ~(L < 20) /\ v = 4 /\ ~(i < 5 \/ L < h) /\ ~(n < h \/ n > L) /\ Sealed(0, S)
  <2>1. c = 0 /\ ~(n - h > IPV4_MAX_PAYLOAD_LEN) /\ 20 <= L /\ i >= 5 /\ h <= L /\ h <= n /\ n <= L
    BY <1>2, <1>6, <1>7, <1>10 DEF IPV4_MAX_PAYLOAD_LEN, IPV4_MIN_HEADER_LEN
  <2>2. ip = Ipv4Fields(Q, h, n)
    BY <1>3, <1>10, <2>1
  <2>3. /\ Ipv4Fields(Q, h, n).rc = 0 /\ Ipv4Fields(Q, h, n).protocol = Q[10]
        /\ Ipv4Fields(Q, h, n).source_ip = Slice(Q, 12, 4)
        /\ Ipv4Fields(Q, h, n).destination_ip = Slice(Q, 16, 4)
        /\ Ipv4Fields(Q, h, n).payload = Slice(Q, h, n - h)
    BY SMT DEF Ipv4Fields
  <2>4. /\ ip.rc = 0 /\ ip.protocol = Q[10] /\ ip.source_ip = Slice(Q, 12, 4)
        /\ ip.destination_ip = Slice(Q, 16, 4) /\ ip.payload = Slice(Q, h, n - h)
    BY <2>2, <2>3, Zenon
  <2>5. Fine(Q) /\ InnerOf(Q) = Slice(Q, h, n - h)
    BY <1>1, <1>10, <2>1, Zenon DEF InnerOf, HeaderSize, PacketSize, h, n
  <2> QED
    BY <2>4, <2>5, Zenon DEF ip
<1> QED
  BY <1>1, <1>5, <1>8, <1>9, <1>10 DEF ip

\* What the loops over IPv4 take from a frame.
LEMMA ReceivedIs ==
  ASSUME NEW D \in Seq(Byte), NEW pr
  PROVE  /\ ipv4_received(D, pr).rc = 0 <=> InFrame(D, ETHERNET_TYPE_IPV4) /\ Good(From(D, 14), pr)
         /\ ipv4_received(D, pr).rc = 0 =>
              /\ ipv4_received(D, pr).source_ip = Peer /\ ipv4_received(D, pr).destination_ip = Self
              /\ ipv4_received(D, pr).payload = InnerOf(From(D, 14))
<1> DEFINE r == ipv4_received(D, pr)
           eth == ethernet_parse(D)
           ip == ipv4_parse(eth.payload)
           Q == From(D, 14)
           fits == 14 <= Len(D) /\ Len(D) - 14 <= EthernetMaxPayload
           mine == /\ eth.rc = 0 /\ eth.ethertype = ETHERNET_TYPE_IPV4
                   /\ ip.rc = 0 /\ ip.protocol = pr
                   /\ ip.source_ip = Peer /\ ip.destination_ip = Self
<1>1. /\ fits => eth.rc = 0 /\ eth.ethertype = read_u16_be(D, 12) /\ eth.payload = Q
      /\ ~fits => eth.rc # 0
  BY EthernetRead, Zenon
<1>2. r = IF mine THEN ip ELSE Fail(-1)
  BY Zenon DEF ipv4_received
<1>3. Fail(-1).rc # 0
  BY DEF Fail
<1>4. CASE ~fits
  <2>1. ~InFrame(D, ETHERNET_TYPE_IPV4)
    BY <1>4 DEF InFrame
  <2>2. r.rc # 0
    BY <1>1, <1>2, <1>3, <1>4, Zenon
  <2> QED
    BY <2>1, <2>2
<1>5. CASE fits
  <2>1. eth.rc = 0 /\ eth.ethertype = read_u16_be(D, 12) /\ eth.payload = Q
    BY <1>1, <1>5
  <2>2. Q \in Seq(Byte) /\ Len(Q) <= EthernetMaxPayload
    <3>1. 14 \in Nat /\ 14 <= Len(D)
      BY <1>5
    <3>2. Q \in Seq(Byte) /\ Len(Q) = Len(D) - 14
      BY <3>1, FromIs
    <3> QED
      BY <1>5, <3>2
  <2> DEFINE q == ipv4_parse(Q)
  <2> HIDE DEF Q
  <2>3. /\ Fine(Q) => /\ q.rc = 0 /\ q.protocol = Q[10]
                      /\ q.source_ip = Slice(Q, 12, 4) /\ q.destination_ip = Slice(Q, 16, 4)
                      /\ q.payload = InnerOf(Q)
        /\ ~Fine(Q) => q.rc # 0
    BY <2>2, Ipv4Read, Zenon
  <2>4. ip = q
    BY <2>1, Zenon
  <2>5. r = IF /\ read_u16_be(D, 12) = ETHERNET_TYPE_IPV4 /\ q.rc = 0 /\ q.protocol = pr
               /\ q.source_ip = Peer /\ q.destination_ip = Self
            THEN q ELSE Fail(-1)
    <3> HIDE DEF q
    <3> QED
      BY <1>2, <2>1, <2>4, Zenon
  <2>6. InFrame(D, ETHERNET_TYPE_IPV4) <=> read_u16_be(D, 12) = ETHERNET_TYPE_IPV4
    BY <1>5 DEF InFrame
  <2> HIDE DEF q, r, eth, ip, fits, mine
  <2>7. /\ r.rc = 0 <=> InFrame(D, ETHERNET_TYPE_IPV4) /\ Good(Q, pr)
        /\ r.rc = 0 => r.source_ip = Peer /\ r.destination_ip = Self /\ r.payload = InnerOf(Q)
    BY <1>3, <2>3, <2>5, <2>6, Zenon DEF Good
  <2> QED
    BY <2>7 DEF r, Q
<1> QED
  BY <1>4, <1>5

\* The frame D holds the packet of header H and body B, and perhaps more behind it.
Within(D, H, B) ==
  /\ D \in Seq(Byte) /\ Len(D) - 14 <= EthernetMaxPayload
  /\ read_u16_be(D, 12) = ETHERNET_TYPE_IPV4 /\ Occurs(D, 14, H) /\ Occurs(D, 34, B)

\* What follows the type of such a frame.
LEMMA WithinPayload ==
  ASSUME NEW D, NEW H \in Seq(Byte), NEW B \in Seq(Byte), Len(H) = 20,
         D \in Seq(Byte), Occurs(D, 14, H), Occurs(D, 34, B)
  PROVE  /\ From(D, 14) \in Seq(Byte) /\ Len(From(D, 14)) = Len(D) - 14
         /\ Len(D) >= 34 + Len(B) /\ Len(D) \in Nat /\ Len(B) \in Nat
         /\ Occurs(From(D, 14), 0, H) /\ Occurs(From(D, 14), 20, B)
         /\ \A j \in 1 .. (Len(D) - 14) : From(D, 14)[j] = D[14 + j]
<1> DEFINE Q == From(D, 14)
<1>1. Len(D) \in Nat /\ Len(B) \in Nat /\ Len(D) >= 34 + Len(B) /\ 14 <= Len(D) /\ 14 \in Nat
  <2>1. Len(D) \in Nat /\ Len(B) \in Nat
    OBVIOUS
  <2>2. 34 + Len(B) <= Len(D)
    BY DEF Occurs
  <2> QED
    BY <2>1, <2>2
<1>2. /\ Q \in Seq(Byte) /\ Len(Q) = Len(D) - 14 /\ Occurs(D, 14, Q)
      /\ \A j \in 1 .. (Len(D) - 14) : Q[j] = D[14 + j]
  BY <1>1, FromIs
<1> HIDE DEF Q
<1>3. /\ Len(Q) \in Nat /\ Len(H) \in Nat /\ 0 \in Nat /\ 20 \in Nat
      /\ 14 + 0 = 14 /\ 14 + 20 = 34 /\ 0 + Len(H) <= Len(Q) /\ 20 + Len(B) <= Len(Q)
  BY <1>1, <1>2
<1>4. Occurs(D, 14 + 0, H) /\ Occurs(D, 14 + 20, B)
  BY <1>3, Zenon
<1>5. Occurs(Q, 0, H)
  <2> DEFINE o == 14
             p == 0
  <2>1. /\ o \in Nat /\ p \in Nat /\ Len(Q) \in Nat /\ Len(H) \in Nat
        /\ Occurs(D, o, Q) /\ Occurs(D, o + p, H) /\ p + Len(H) <= Len(Q)
    BY <1>1, <1>2, <1>3, <1>4
  <2> HIDE DEF o, p
  <2>2. Occurs(Q, p, H)
    BY <2>1, OccursWithin, Zenon
  <2> QED
    BY <2>2 DEF p
<1>6. Occurs(Q, 20, B)
  <2> DEFINE o == 14
             p == 20
  <2>1. /\ o \in Nat /\ p \in Nat /\ Len(Q) \in Nat /\ Len(B) \in Nat
        /\ Occurs(D, o, Q) /\ Occurs(D, o + p, B) /\ p + Len(B) <= Len(Q)
    BY <1>1, <1>2, <1>3, <1>4
  <2> HIDE DEF o, p
  <2>2. Occurs(Q, p, B)
    BY <2>1, OccursWithin, Zenon
  <2> QED
    BY <2>2 DEF p
<1> QED
  BY <1>1, <1>2, <1>5, <1>6 DEF Q

\* A packet that is whole is taken by the loop it is meant for.
LEMMA WholeReceived ==
  ASSUME NEW D, NEW H, NEW B \in Seq(Byte), Within(D, H, B), NEW from, NEW to, NEW p, NEW pr,
         IsIp(from), IsIp(to), Header(H, from, to, p, Len(B)), Sealed(0, H)
  PROVE  /\ ipv4_received(D, pr).rc = 0 <=> pr = p /\ from = Peer /\ to = Self
         /\ ipv4_received(D, pr).rc = 0 =>
              /\ ipv4_received(D, pr).source_ip = Peer /\ ipv4_received(D, pr).destination_ip = Self
              /\ ipv4_received(D, pr).payload = B
<1> DEFINE Q == From(D, 14)
           h == HeaderSize(Q)
           n == PacketSize(Q)
<1>1. /\ D \in Seq(Byte) /\ Len(D) - 14 <= EthernetMaxPayload
      /\ read_u16_be(D, 12) = ETHERNET_TYPE_IPV4 /\ Occurs(D, 14, H) /\ Occurs(D, 34, B)
  BY DEF Within
<1>2. /\ H \in Seq(Byte) /\ Len(H) = 20 /\ H[1] = 69 /\ read_u16_be(H, 2) = 20 + Len(B)
      /\ H[10] = p /\ Occurs(H, 12, from) /\ Occurs(H, 16, to)
  BY Zenon DEF Header
<1>3. from \in Seq(Byte) /\ Len(from) = 4 /\ to \in Seq(Byte) /\ Len(to) = 4
  BY DEF IsIp, ARP_PROTOCOL_ADDR_LEN
<1>4. /\ Q \in Seq(Byte) /\ Len(Q) = Len(D) - 14 /\ Len(D) >= 34 + Len(B) /\ Len(D) \in Nat
      /\ Len(B) \in Nat /\ Occurs(Q, 0, H) /\ Occurs(Q, 20, B)
  BY <1>1, <1>2, WithinPayload, ZenonT(40)
<1>5. ipv4_received(D, pr).rc = 0 <=> InFrame(D, ETHERNET_TYPE_IPV4) /\ Good(Q, pr)
  BY <1>1, ReceivedIs, Zenon
<1>6. ipv4_received(D, pr).rc = 0 =>
        /\ ipv4_received(D, pr).source_ip = Peer /\ ipv4_received(D, pr).destination_ip = Self
        /\ ipv4_received(D, pr).payload = InnerOf(Q)
  BY <1>1, ReceivedIs, Zenon
<1>7. InFrame(D, ETHERNET_TYPE_IPV4)
  BY <1>1, <1>4 DEF InFrame
<1> HIDE DEF Q
<1>8. Q[1] = 69 /\ n = 20 + Len(B) /\ Q[10] = p
  <2>1. Q[0 + 1] = H[1] /\ Q[0 + 3] = H[3] /\ Q[0 + 4] = H[4] /\ Q[0 + 10] = H[10]
    BY <1>2, <1>4 DEF Occurs
  <2>2. Q[1] = H[1] /\ Q[2 + 1] = H[2 + 1] /\ Q[2 + 2] = H[2 + 2] /\ Q[10] = H[10]
    BY <2>1
  <2>3. read_u16_be(Q, 2) = read_u16_be(H, 2)
    BY <2>2, Zenon DEF read_u16_be
  <2> QED
    BY <1>2, <2>2, <2>3 DEF PacketSize
<1>9. Q[1] \div 16 = 4 /\ Q[1] % 16 = 5 /\ h = 20
  BY <1>8 DEF HeaderSize
<1> HIDE DEF h, n
<1>10. Slice(Q, 0, 20) = H /\ Slice(Q, 20, Len(B)) = B
  <2>1. Slice(Q, 0, Len(H)) = H
    BY <1>2, <1>4, SliceOf, Zenon
  <2>2. Slice(Q, 20, Len(B)) = B
    BY <1>4, SliceOf, Zenon
  <2> QED
    BY <1>2, <2>1, <2>2, Zenon
<1>11. Slice(Q, 12, 4) = from /\ Slice(Q, 16, 4) = to
  <2>1. Occurs(Q, 12, from)
    BY <1>2, <1>3, <1>4, HeadIn
  <2>2. Occurs(Q, 16, to)
    BY <1>2, <1>3, <1>4, HeadIn
  <2>3. Slice(Q, 12, Len(from)) = from
    BY <1>3, <1>4, <2>1, SliceOf, Zenon
  <2>4. Slice(Q, 16, Len(to)) = to
    BY <1>3, <1>4, <2>2, SliceOf, Zenon
  <2> QED
    BY <1>3, <2>3, <2>4, Zenon
<1>12. Good(Q, pr) <=> pr = p /\ from = Peer /\ to = Self
  <2>1. /\ 20 <= Len(Q) /\ Q[1] % 16 >= 5 /\ h <= Len(Q) /\ h <= n /\ n <= Len(Q)
    BY <1>4, <1>8, <1>9
  <2>2. Sealed(0, Slice(Q, 0, h))
    BY <1>9, <1>10, Zenon
  <2> QED
    BY <1>8, <1>9, <1>11, <2>1, <2>2, Zenon DEF Good, Fine, h, n
<1>13. InnerOf(Q) = B
  <2>1. h = 20 /\ n - h = Len(B)
    BY <1>4, <1>8, <1>9
  <2> QED
    BY <1>10, <2>1, Zenon DEF InnerOf, h, n
<1> QED
  BY <1>5, <1>6, <1>7, <1>12, <1>13, Zenon

\* What the loop of each listener makes of the data.
Accept(l, D) ==
  IF l = "tcp" THEN receive_tcp_segment(D)
  ELSE IF l = "udp" THEN receive_dns_datagram(D)
  ELSE IF l = "icmp" THEN receive_echo_reply(D) ELSE receive_arp_reply(D)

\* What the loops read, and what they ask of it.
Ipv4Of(D, pr) == ipv4_received(D, pr)
TcpOf(D)      == tcp_parse(Ipv4Of(D, IPV4_PROTOCOL_TCP).payload)
UdpOf(D)      == udp_parse(Ipv4Of(D, IPV4_PROTOCOL_UDP).payload)
IcmpOf(D)     == icmp_parse(Ipv4Of(D, IPV4_PROTOCOL_ICMP).payload)
ArpOf(D)      == arp_parse(ethernet_parse(D).payload)

\* The conditions under which they stop waiting.
TcpOk(D) ==
  /\ Ipv4Of(D, IPV4_PROTOCOL_TCP).rc = 0
  /\ tcp_checksum_ipv4_valid(Ipv4Of(D, IPV4_PROTOCOL_TCP).source_ip,
       Ipv4Of(D, IPV4_PROTOCOL_TCP).destination_ip, Ipv4Of(D, IPV4_PROTOCOL_TCP).payload)
  /\ TcpOf(D).rc = 0
  /\ TcpOf(D).source_port = PeerPort /\ TcpOf(D).destination_port = SelfPort

UdpOk(D) ==
  /\ Ipv4Of(D, IPV4_PROTOCOL_UDP).rc = 0
  /\ udp_checksum_ipv4_valid(Ipv4Of(D, IPV4_PROTOCOL_UDP).source_ip,
       Ipv4Of(D, IPV4_PROTOCOL_UDP).destination_ip, Ipv4Of(D, IPV4_PROTOCOL_UDP).payload)
  /\ UdpOf(D).rc = 0
  /\ UdpOf(D).source_port = PeerPort /\ UdpOf(D).destination_port = SelfPort

IcmpOk(D) ==
  /\ Ipv4Of(D, IPV4_PROTOCOL_ICMP).rc = 0 /\ IcmpOf(D).rc = 0
  /\ IcmpOf(D).type = ICMP_TYPE_ECHO_REPLY
  /\ IcmpOf(D).identifier = Identifier /\ IcmpOf(D).sequence = Sequence

ArpOk(D) ==
  /\ ethernet_parse(D).rc = 0 /\ ethernet_parse(D).ethertype = ETHERNET_TYPE_ARP
  /\ ArpOf(D).rc = 0 /\ ArpOf(D).opcode = ARP_OPCODE_REPLY
  /\ ArpOf(D).sender_ip = Peer /\ ArpOf(D).target_ip = Self

\* A loop takes what it read if that is as it asks.
LEMMA TakenIs ==
  ASSUME NEW D
  PROVE  /\ (Accept("tcp", D).rc = 0 <=> TcpOk(D)) /\ (TcpOk(D) => Accept("tcp", D) = TcpOf(D))
         /\ (Accept("udp", D).rc = 0 <=> UdpOk(D)) /\ (UdpOk(D) => Accept("udp", D) = UdpOf(D))
         /\ (Accept("icmp", D).rc = 0 <=> IcmpOk(D)) /\ (IcmpOk(D) => Accept("icmp", D) = IcmpOf(D))
         /\ (Accept("arp", D).rc = 0 <=> ArpOk(D)) /\ (ArpOk(D) => Accept("arp", D) = ArpOf(D))
<1>1. Fail(-1).rc # 0
  BY DEF Fail
<1>2. /\ Accept("tcp", D) = receive_tcp_segment(D) /\ Accept("udp", D) = receive_dns_datagram(D)
      /\ Accept("icmp", D) = receive_echo_reply(D) /\ Accept("arp", D) = receive_arp_reply(D)
  BY DEF Accept
<1>3. receive_tcp_segment(D) = IF TcpOk(D) THEN TcpOf(D) ELSE Fail(-1)
  BY Zenon DEF receive_tcp_segment, TcpOk, TcpOf, Ipv4Of
<1>4. receive_dns_datagram(D) = IF UdpOk(D) THEN UdpOf(D) ELSE Fail(-1)
  BY Zenon DEF receive_dns_datagram, UdpOk, UdpOf, Ipv4Of
<1>5. receive_echo_reply(D) = IF IcmpOk(D) THEN IcmpOf(D) ELSE Fail(-1)
  BY Zenon DEF receive_echo_reply, IcmpOk, IcmpOf, Ipv4Of
<1>6. receive_arp_reply(D) = IF ArpOk(D) THEN ArpOf(D) ELSE Fail(-1)
  BY Zenon DEF receive_arp_reply, ArpOk, ArpOf
<1>7. /\ TcpOk(D) => TcpOf(D).rc = 0
      /\ UdpOk(D) => UdpOf(D).rc = 0
      /\ IcmpOk(D) => IcmpOf(D).rc = 0
      /\ ArpOk(D) => ArpOf(D).rc = 0
  BY Zenon DEF TcpOk, UdpOk, IcmpOk, ArpOk
<1>8. (Accept("tcp", D).rc = 0 <=> TcpOk(D)) /\ (TcpOk(D) => Accept("tcp", D) = TcpOf(D))
  BY <1>1, <1>2, <1>3, <1>7, Zenon
<1>9. (Accept("udp", D).rc = 0 <=> UdpOk(D)) /\ (UdpOk(D) => Accept("udp", D) = UdpOf(D))
  BY <1>1, <1>2, <1>4, <1>7, Zenon
<1>10. (Accept("icmp", D).rc = 0 <=> IcmpOk(D)) /\ (IcmpOk(D) => Accept("icmp", D) = IcmpOf(D))
  BY <1>1, <1>2, <1>5, <1>7, Zenon
<1>11. (Accept("arp", D).rc = 0 <=> ArpOk(D)) /\ (ArpOk(D) => Accept("arp", D) = ArpOf(D))
  BY <1>1, <1>2, <1>6, <1>7, Zenon
<1> QED
  BY <1>8, <1>9, <1>10, <1>11, Zenon

\* The protocol numbers tell the kinds apart.
LEMMA Protocols ==
  ASSUME NEW m \in Messages, m.kind # "arp"
  PROVE  /\ ProtocolOf(m.kind) = IPV4_PROTOCOL_TCP <=> m.kind = "tcp"
         /\ ProtocolOf(m.kind) = IPV4_PROTOCOL_UDP <=> m.kind = "udp"
         /\ ProtocolOf(m.kind) = IPV4_PROTOCOL_ICMP <=> m.kind = "icmp"
<1>1. m.kind \in {"tcp", "udp", "icmp"}
  BY BodyIs
<1> QED
  BY <1>1 DEF ProtocolOf, IPV4_PROTOCOL_TCP, IPV4_PROTOCOL_UDP, IPV4_PROTOCOL_ICMP

\* The right sum is found right.
LEMMA SealSeen ==
  ASSUME NEW s \in Word, NEW d \in Seq(Byte)
  PROVE  checksum_finish(add_bytes(s, d)) = 0 <=> Sealed(s, d)
<1>1. add_bytes(s, d) \in Word
  BY SumType
<1> QED
  BY <1>1, FinishSeals DEF Sealed

\* What the loop of a kind asks of a whole packet of that kind.
LEMMA BodyTaken ==
  ASSUME NEW m \in Messages, NEW B, BodyAt(B, m), Len(B) <= MaxPacketLen
  PROVE  /\ m.kind = "tcp" =>
              /\ tcp_checksum_ipv4_valid(m.from, m.to, B)
              /\ tcp_parse(B).rc = 0 /\ Content(tcp_parse(B)) = Content(m.packet)
              /\ tcp_parse(B).source_port = m.packet.source_port
              /\ tcp_parse(B).destination_port = m.packet.destination_port
         /\ m.kind = "udp" =>
              /\ udp_checksum_ipv4_valid(m.from, m.to, B)
              /\ udp_parse(B).rc = 0 /\ Content(udp_parse(B)) = Content(m.packet)
              /\ udp_parse(B).source_port = m.packet.source_port
              /\ udp_parse(B).destination_port = m.packet.destination_port
         /\ m.kind = "icmp" =>
              /\ icmp_parse(B).rc = 0 /\ Content(icmp_parse(B)) = Content(m.packet)
              /\ icmp_parse(B).type = m.packet.type
              /\ icmp_parse(B).identifier = m.packet.identifier
              /\ icmp_parse(B).sequence = m.packet.sequence
<1>1. IsIp(m.from) /\ IsIp(m.to)
  BY MessageAssumption DEF IsMessage
<1>2. ASSUME m.kind = "tcp"
      PROVE  /\ tcp_checksum_ipv4_valid(m.from, m.to, B)
             /\ tcp_parse(B).rc = 0 /\ Content(tcp_parse(B)) = Content(m.packet)
             /\ tcp_parse(B).source_port = m.packet.source_port
             /\ tcp_parse(B).destination_port = m.packet.destination_port
  <2> DEFINE p == pseudo_header_sum(m.from, m.to, TCP_PROTOCOL, Len(B))
  <2>1. B \in Seq(Byte) /\ IsTcp(m.packet) /\ TcpAt(B, m.packet) /\ Len(B) \in Word /\ Sealed(p, B)
    BY <1>2, Zenon DEF BodyAt
  <2>2. p \in Word
    <3>1. TCP_PROTOCOL \in Word
      BY SmallWords DEF TCP_PROTOCOL
    <3> QED
      BY <1>1, <2>1, <3>1, PseudoIs
  <2>3. checksum_finish(tcp_checksum_sum_ipv4(m.from, m.to, B)) = 0
    <3> HIDE DEF p
    <3>1. checksum_finish(add_bytes(p, B)) = 0
      BY <2>1, <2>2, SealSeen
    <3> QED
      BY <3>1, Zenon DEF tcp_checksum_sum_ipv4, p
  <2>4. Len(B) >= TCP_MIN_HEADER_LEN /\ Len(B) <= 65535
    <3>1. Len(B) = 4 * m.packet.data_offset + Len(m.packet.payload)
      BY <2>1, Zenon DEF TcpAt
    <3>2. m.packet.data_offset \in Nat /\ 5 <= m.packet.data_offset /\ Len(m.packet.payload) \in Nat
      <4> DEFINE s == m.packet
      <4> HIDE DEF s
      <4>1. s \in TcpPacket
        BY <2>1 DEF IsTcp, s
      <4>2. s.data_offset \in Nat /\ 5 <= s.data_offset /\ Len(s.payload) \in Nat
        BY <4>1 DEF TcpPacket
      <4> QED
        BY <4>2 DEF s
    <3>3. 4 * m.packet.data_offset + Len(m.packet.payload) >= 20
      BY <3>2
    <3>4. Len(B) \in Nat /\ Len(B) <= 65535
      BY <2>1, SmallWords
    <3> QED
      BY <3>1, <3>3, <3>4 DEF TCP_MIN_HEADER_LEN
  <2>5. tcp_checksum_ipv4_valid(m.from, m.to, B)
    BY <2>3, <2>4 DEF tcp_checksum_ipv4_valid
  <2> QED
    BY <2>1, <2>5, TcpRead, Zenon
<1>3. ASSUME m.kind = "udp"
      PROVE  /\ udp_checksum_ipv4_valid(m.from, m.to, B)
             /\ udp_parse(B).rc = 0 /\ Content(udp_parse(B)) = Content(m.packet)
             /\ udp_parse(B).source_port = m.packet.source_port
             /\ udp_parse(B).destination_port = m.packet.destination_port
  <2> DEFINE p == pseudo_header_sum(m.from, m.to, UDP_PROTOCOL, Len(B))
  <2>1. B \in Seq(Byte) /\ IsUdp(m.packet) /\ UdpAt(B, m.packet) /\ Len(B) \in Word /\ Sealed(p, B)
    BY <1>3, Zenon DEF BodyAt
  <2>2. p \in Word
    <3>1. UDP_PROTOCOL \in Word
      BY SmallWords DEF UDP_PROTOCOL
    <3> QED
      BY <1>1, <2>1, <3>1, PseudoIs
  <2>3. udp_sum(m.from, m.to, B) = 0
    <3> HIDE DEF p
    <3>1. checksum_finish(add_bytes(p, B)) = 0
      BY <2>1, <2>2, SealSeen
    <3> QED
      BY <3>1, Zenon DEF udp_sum, p
  <2>4. Len(B) >= UDP_HEADER_LEN
    <3>1. Len(B) = 8 + Len(m.packet.payload)
      BY <2>1, Zenon DEF UdpAt
    <3>2. Len(m.packet.payload) \in Nat
      BY <2>1 DEF IsUdp, UdpPacket
    <3> QED
      BY <3>1, <3>2 DEF UDP_HEADER_LEN
  <2>5. udp_checksum_ipv4_valid(m.from, m.to, B)
    BY <2>3, <2>4, Zenon DEF udp_checksum_ipv4_valid
  <2> QED
    BY <2>1, <2>5, UdpRead, Zenon
<1>4. ASSUME m.kind = "icmp"
      PROVE  /\ icmp_parse(B).rc = 0 /\ Content(icmp_parse(B)) = Content(m.packet)
             /\ icmp_parse(B).type = m.packet.type
             /\ icmp_parse(B).identifier = m.packet.identifier
             /\ icmp_parse(B).sequence = m.packet.sequence
  <2>1. m.packet \in IcmpPacket /\ IcmpAt(B, m.packet) /\ Sealed(0, B)
    BY <1>4, Zenon DEF BodyAt
  <2> QED
    BY <2>1, IcmpRead, Zenon
<1> QED
  BY <1>2, <1>3, <1>4, Zenon

(***************************************************************************)
(* Whole frames.                                                           *)
(***************************************************************************)
\* Header and body of a message over IPv4.
Sound(H, B, m) ==
  /\ Header(H, m.from, m.to, ProtocolOf(m.kind), Len(B)) /\ Sealed(0, H)
  /\ BodyAt(B, m) /\ 20 + Len(B) <= EthernetMaxPayload

\* The loop takes the message if it is meant for it, and takes it as it was sent.
Delivered(l, D, m) ==
  /\ (Accept(l, D).rc = 0) <=> MeantFor(m, l)
  /\ Accept(l, D).rc = 0 => Content(Accept(l, D)) = Content(m.packet)

\* For whom a message is meant, kind by kind.
LEMMA MeantIs ==
  ASSUME NEW m
  PROVE  /\ MeantFor(m, "tcp") <=> /\ m.kind = "tcp" /\ m.from = Peer /\ m.to = Self
                                   /\ m.packet.source_port = PeerPort
                                   /\ m.packet.destination_port = SelfPort
         /\ MeantFor(m, "udp") <=> /\ m.kind = "udp" /\ m.from = Peer /\ m.to = Self
                                   /\ m.packet.source_port = PeerPort
                                   /\ m.packet.destination_port = SelfPort
         /\ MeantFor(m, "icmp") <=> /\ m.kind = "icmp" /\ m.from = Peer /\ m.to = Self
                                    /\ m.packet.type = ICMP_TYPE_ECHO_REPLY
                                    /\ m.packet.identifier = Identifier
                                    /\ m.packet.sequence = Sequence
         /\ MeantFor(m, "arp") <=> /\ m.kind = "arp" /\ m.from = Peer /\ m.to = Self
                                   /\ m.packet.opcode = ARP_OPCODE_REPLY
                                   /\ m.packet.sender_ip = Peer /\ m.packet.target_ip = Self
BY DEF MeantFor

\* A frame of another type is none of the ARP loop's.
LEMMA NotArp ==
  ASSUME NEW D \in Seq(Byte), ~InFrame(D, ETHERNET_TYPE_ARP)
  PROVE  Accept("arp", D).rc # 0
<1>1. ~ArpOk(D)
  <2>1. CASE ethernet_parse(D).rc # 0
    BY <2>1, Zenon DEF ArpOk
  <2>2. CASE ethernet_parse(D).rc = 0
    <3>1. ethernet_parse(D).ethertype # ETHERNET_TYPE_ARP
      BY <2>2, EthernetRead, Zenon DEF InFrame
    <3> QED
      BY <3>1, Zenon DEF ArpOk
  <2> QED
    BY <2>1, <2>2
<1> QED
  BY <1>1, TakenIs, Zenon

\* What the IPv4 layer makes of a whole packet of protocol p with body B.
Reads(D, m, p, B) ==
  \A pr : /\ Ipv4Of(D, pr).rc = 0 <=> pr = p /\ m.from = Peer /\ m.to = Self
          /\ Ipv4Of(D, pr).rc = 0 =>
               /\ Ipv4Of(D, pr).source_ip = Peer /\ Ipv4Of(D, pr).destination_ip = Self
               /\ Ipv4Of(D, pr).payload = B

\* It takes the body out.
LEMMA Ipv4Taken ==
  ASSUME NEW m, IsIp(m.from), IsIp(m.to), NEW p, NEW D, NEW H, NEW B \in Seq(Byte),
         Within(D, H, B), Header(H, m.from, m.to, p, Len(B)), Sealed(0, H)
  PROVE  Reads(D, m, p, B)
<1> SUFFICES ASSUME NEW pr
             PROVE  /\ Ipv4Of(D, pr).rc = 0 <=> pr = p /\ m.from = Peer /\ m.to = Self
                    /\ Ipv4Of(D, pr).rc = 0 =>
                         /\ Ipv4Of(D, pr).source_ip = Peer /\ Ipv4Of(D, pr).destination_ip = Self
                         /\ Ipv4Of(D, pr).payload = B
  BY DEF Reads
<1>1. /\ ipv4_received(D, pr).rc = 0 <=> pr = p /\ m.from = Peer /\ m.to = Self
      /\ ipv4_received(D, pr).rc = 0 =>
           /\ ipv4_received(D, pr).source_ip = Peer /\ ipv4_received(D, pr).destination_ip = Self
           /\ ipv4_received(D, pr).payload = B
  BY WholeReceived
<1> QED
  BY <1>1, Zenon DEF Ipv4Of

\* A message over IPv4.
LEMMA WholeTaken ==
  ASSUME NEW m \in Messages, m.kind # "arp", NEW l \in Listener, NEW D, NEW H, NEW B,
         Within(D, H, B), Sound(H, B, m)
  PROVE  Delivered(l, D, m)
<1> DEFINE p == ProtocolOf(m.kind)
<1>1. /\ Header(H, m.from, m.to, p, Len(B)) /\ Sealed(0, H) /\ BodyAt(B, m)
      /\ 20 + Len(B) <= EthernetMaxPayload /\ B \in Seq(Byte)
  BY Zenon DEF Sound, BodyAt
<1>2. IsIp(m.from) /\ IsIp(m.to)
  BY BodyIs, Zenon
<1>3. Len(B) <= MaxPacketLen
  <2>1. Len(B) \in Nat /\ EthernetMaxPayload \in Nat /\ MaxPacketLen \in Nat
    BY <1>1, EthernetAssumption, ChecksumAssumption
  <2> QED
    BY <1>1, <2>1, FramePathAssumption
<1> HIDE DEF p
<1>4. Reads(D, m, p, B)
  BY <1>1, <1>2, Ipv4Taken, Zenon
<1>5. /\ p = IPV4_PROTOCOL_TCP <=> m.kind = "tcp"
      /\ p = IPV4_PROTOCOL_UDP <=> m.kind = "udp"
      /\ p = IPV4_PROTOCOL_ICMP <=> m.kind = "icmp"
  BY Protocols, Zenon DEF p
<1>6. Delivered("tcp", D, m)
  <2>1. m.kind = "tcp" =>
          /\ tcp_checksum_ipv4_valid(m.from, m.to, B)
          /\ tcp_parse(B).rc = 0 /\ Content(tcp_parse(B)) = Content(m.packet)
          /\ tcp_parse(B).source_port = m.packet.source_port
          /\ tcp_parse(B).destination_port = m.packet.destination_port
    BY <1>1, <1>3, BodyTaken, Zenon
  <2>2. TcpOk(D) <=> MeantFor(m, "tcp")
    BY <1>4, <1>5, <2>1, MeantIs, Zenon DEF TcpOk, TcpOf, Reads
  <2>3. TcpOk(D) => Content(TcpOf(D)) = Content(m.packet)
    BY <1>4, <1>5, <2>1, Zenon DEF TcpOk, TcpOf, Reads
  <2> QED
    BY <2>2, <2>3, TakenIs, Zenon DEF Delivered
<1>7. Delivered("udp", D, m)
  <2>1. m.kind = "udp" =>
          /\ udp_checksum_ipv4_valid(m.from, m.to, B)
          /\ udp_parse(B).rc = 0 /\ Content(udp_parse(B)) = Content(m.packet)
          /\ udp_parse(B).source_port = m.packet.source_port
          /\ udp_parse(B).destination_port = m.packet.destination_port
    BY <1>1, <1>3, BodyTaken, Zenon
  <2>2. UdpOk(D) <=> MeantFor(m, "udp")
    BY <1>4, <1>5, <2>1, MeantIs, Zenon DEF UdpOk, UdpOf, Reads
  <2>3. UdpOk(D) => Content(UdpOf(D)) = Content(m.packet)
    BY <1>4, <1>5, <2>1, Zenon DEF UdpOk, UdpOf, Reads
  <2> QED
    BY <2>2, <2>3, TakenIs, Zenon DEF Delivered
<1>8. Delivered("icmp", D, m)
  <2>1. m.kind = "icmp" =>
          /\ icmp_parse(B).rc = 0 /\ Content(icmp_parse(B)) = Content(m.packet)
          /\ icmp_parse(B).type = m.packet.type
          /\ icmp_parse(B).identifier = m.packet.identifier
          /\ icmp_parse(B).sequence = m.packet.sequence
    BY <1>1, <1>3, BodyTaken, Zenon
  <2>2. IcmpOk(D) <=> MeantFor(m, "icmp")
    BY <1>4, <1>5, <2>1, MeantIs, Zenon DEF IcmpOk, IcmpOf, Reads
  <2>3. IcmpOk(D) => Content(IcmpOf(D)) = Content(m.packet)
    BY <1>4, <1>5, <2>1, Zenon DEF IcmpOk, IcmpOf, Reads
  <2> QED
    BY <2>2, <2>3, TakenIs, Zenon DEF Delivered
<1>9. Delivered("arp", D, m)
  <2>1. D \in Seq(Byte) /\ read_u16_be(D, 12) = ETHERNET_TYPE_IPV4
    BY Zenon DEF Within
  <2>2. ETHERNET_TYPE_IPV4 # ETHERNET_TYPE_ARP
    BY DEF ETHERNET_TYPE_IPV4, ETHERNET_TYPE_ARP
  <2>3. Accept("arp", D).rc # 0
    BY <2>1, <2>2, NotArp, Zenon DEF InFrame
  <2> QED
    BY <2>3, MeantIs, Zenon DEF Delivered
<1> QED
  BY <1>6, <1>7, <1>8, <1>9 DEF Listener

\* A frame of another type, or without a packet that can be parsed, is none of an IPv4 loop's.
LEMMA NotIpv4 ==
  ASSUME NEW D \in Seq(Byte), ~(InFrame(D, ETHERNET_TYPE_IPV4) /\ Fine(From(D, 14))),
         NEW l \in {"tcp", "udp", "icmp"}
  PROVE  Accept(l, D).rc # 0
<1>1. \A pr : Ipv4Of(D, pr).rc # 0
  BY ReceivedIs, Zenon DEF Ipv4Of, Good
<1>2. ~TcpOk(D) /\ ~UdpOk(D) /\ ~IcmpOk(D)
  BY <1>1, Zenon DEF TcpOk, UdpOk, IcmpOk
<1>3. Accept("tcp", D).rc # 0 /\ Accept("udp", D).rc # 0 /\ Accept("icmp", D).rc # 0
  BY <1>2, TakenIs, Zenon
<1> QED
  BY <1>3

\* The frame D holds the ARP packet A, and perhaps more behind it.
HoldsArp(D, A) ==
  /\ D \in Seq(Byte) /\ Len(D) - 14 <= EthernetMaxPayload
  /\ read_u16_be(D, 12) = ETHERNET_TYPE_ARP /\ Occurs(D, 14, A)

\* An ARP packet.
LEMMA ArpTaken ==
  ASSUME NEW m \in Messages, m.kind = "arp", NEW l \in Listener, NEW D, NEW A,
         HoldsArp(D, A), ArpAt(A, m.packet), IsArp(m.packet),
         m.packet.sender_ip = m.from, m.packet.target_ip = m.to
  PROVE  Delivered(l, D, m)
<1>1. /\ D \in Seq(Byte) /\ Len(D) - 14 <= EthernetMaxPayload
      /\ read_u16_be(D, 12) = ETHERNET_TYPE_ARP /\ Occurs(D, 14, A)
  BY Zenon DEF HoldsArp
<1>2. A \in Seq(Byte) /\ Len(A) = 28
  BY Zenon DEF ArpAt
<1>3. Len(D) \in Nat /\ Len(D) >= 42
  <2>1. Len(D) \in Nat
    BY <1>1
  <2>2. 14 + Len(A) <= Len(D)
    BY <1>1 DEF Occurs
  <2> QED
    BY <1>2, <2>1, <2>2
<1>4. InFrame(D, ETHERNET_TYPE_ARP) /\ ~InFrame(D, ETHERNET_TYPE_IPV4)
  <2>1. ETHERNET_TYPE_IPV4 # ETHERNET_TYPE_ARP
    BY DEF ETHERNET_TYPE_IPV4, ETHERNET_TYPE_ARP
  <2> QED
    BY <1>1, <1>3, <2>1 DEF InFrame
<1>5. /\ ethernet_parse(D).rc = 0 /\ ethernet_parse(D).ethertype = ETHERNET_TYPE_ARP
      /\ ethernet_parse(D).payload = From(D, 14)
  BY <1>1, <1>4, EthernetRead, Zenon DEF InFrame
<1>6. From(D, 14) \in Seq(Byte) /\ Occurs(From(D, 14), 0, A)
  <2> DEFINE Q == From(D, 14)
             o == 14
             p == 0
  <2>1. /\ o \in Nat /\ p \in Nat /\ o <= Len(D) /\ Len(D) \in Nat
        /\ Q = From(D, o) /\ o + p = 14
    BY <1>3
  <2> HIDE DEF o, p, Q
  <2>2. Q \in Seq(Byte) /\ Len(Q) = Len(D) - o /\ Occurs(D, o, Q)
    BY <1>1, <2>1, FromIs
  <2>3. p + Len(A) <= Len(Q) /\ Len(Q) \in Nat /\ Len(A) \in Nat
    BY <1>2, <1>3, <2>2 DEF o, p
  <2>4. Occurs(D, o + p, A)
    BY <1>1, <2>1, Zenon
  <2>5. Occurs(Q, p, A)
    BY <1>1, <1>2, <2>1, <2>2, <2>3, <2>4, OccursWithin, Zenon
  <2> QED
    BY <2>2, <2>5 DEF p, Q
<1>7. ArpOf(D) = m.packet
  BY <1>5, <1>6, ArpRead, Zenon DEF ArpOf
<1>8. m.packet.rc = 0
  BY DEF IsArp, ArpPacket
<1>9. Delivered("arp", D, m)
  <2>1. ArpOk(D) <=> MeantFor(m, "arp")
    BY <1>5, <1>7, <1>8, MeantIs, Zenon DEF ArpOk
  <2> QED
    BY <1>7, <2>1, TakenIs, Zenon DEF Delivered
<1>10. ASSUME l # "arp" PROVE Delivered(l, D, m)
  <2>1. l \in {"tcp", "udp", "icmp"}
    BY <1>10 DEF Listener
  <2>2. Accept(l, D).rc # 0
    BY <1>1, <1>4, <2>1, NotIpv4, Zenon
  <2>3. ~MeantFor(m, l)
    BY <1>10 DEF MeantFor
  <2> QED
    BY <2>2, <2>3, Zenon DEF Delivered
<1> QED
  BY <1>9, <1>10, Zenon

(***************************************************************************)
(* Frames without their end.                                               *)
(***************************************************************************)
\* What a loop takes is the message that was sent to it.
Harmless(l, D, m) ==
  Accept(l, D).rc = 0 => MeantFor(m, l) /\ Content(Accept(l, D)) = Content(m.packet)

\* What is left of a frame starts as the frame did.
LEMMA Rest ==
  ASSUME NEW E \in Seq(Byte), NEW D \in Seq(Byte), Occurs(E, 0, D)
  PROVE  /\ Len(D) \in Nat /\ Len(E) \in Nat /\ Len(D) <= Len(E)
         /\ \A j \in 1 .. Len(D) : D[j] = E[j]
         /\ Len(D) >= 14 => read_u16_be(D, 12) = read_u16_be(E, 12)
         /\ \A x \in Seq(Byte) : \A o \in Nat :
              Occurs(E, o, x) /\ o + Len(x) <= Len(D) => Occurs(D, o, x)
<1>1. Len(D) \in Nat /\ Len(E) \in Nat
  OBVIOUS
<1>2. Len(D) <= Len(E) /\ \A j \in 1 .. Len(D) : D[j] = E[j]
  <2>1. 0 + Len(D) <= Len(E) /\ \A j \in 1 .. Len(D) : E[0 + j] = D[j]
    BY DEF Occurs
  <2> QED
    BY <1>1, <2>1
<1>3. ASSUME Len(D) >= 14 PROVE read_u16_be(D, 12) = read_u16_be(E, 12)
  <2>1. D[12 + 1] = E[12 + 1] /\ D[12 + 2] = E[12 + 2]
    BY <1>1, <1>2, <1>3
  <2> QED
    BY <2>1, Zenon DEF read_u16_be
<1>4. ASSUME NEW x \in Seq(Byte), NEW o \in Nat, Occurs(E, o, x), o + Len(x) <= Len(D)
      PROVE  Occurs(D, o, x)
  <2>1. 0 + o = o /\ 0 \in Nat
    OBVIOUS
  <2>2. Occurs(E, 0 + o, x)
    BY <1>4, <2>1, Zenon
  <2> QED
    BY <1>1, <1>4, <2>1, <2>2, OccursWithin
<1> QED
  BY <1>1, <1>2, <1>3, <1>4

\* A message over IPv4.
LEMMA CutHarmless ==
  ASSUME NEW m \in Messages, m.kind # "arp", NEW l \in Listener, NEW E, NEW H, NEW B,
         Within(E, H, B), Sound(H, B, m), NEW D \in Seq(Byte), Occurs(E, 0, D)
  PROVE  Harmless(l, D, m)
<1>1. /\ E \in Seq(Byte) /\ Len(E) - 14 <= EthernetMaxPayload
      /\ read_u16_be(E, 12) = ETHERNET_TYPE_IPV4 /\ Occurs(E, 14, H) /\ Occurs(E, 34, B)
  BY DEF Within
<1>2. /\ H \in Seq(Byte) /\ Len(H) = 20 /\ read_u16_be(H, 2) = 20 + Len(B) /\ B \in Seq(Byte)
      /\ Len(B) \in Nat
  <2>1. H \in Seq(Byte) /\ Len(H) = 20 /\ read_u16_be(H, 2) = 20 + Len(B) /\ B \in Seq(Byte)
    BY Zenon DEF Sound, Header, BodyAt
  <2> QED
    BY <2>1
<1>3. /\ Len(D) \in Nat /\ Len(E) \in Nat /\ Len(D) <= Len(E)
      /\ \A j \in 1 .. Len(D) : D[j] = E[j]
      /\ Len(D) >= 14 => read_u16_be(D, 12) = read_u16_be(E, 12)
      /\ \A x \in Seq(Byte) : \A o \in Nat :
           Occurs(E, o, x) /\ o + Len(x) <= Len(D) => Occurs(D, o, x)
  BY <1>1, Rest, Zenon
<1>4. EthernetMaxPayload \in Nat
  BY EthernetAssumption
<1>5. CASE Len(D) >= 34 + Len(B)
  <2>1. 14 + Len(H) <= Len(D) /\ 34 + Len(B) <= Len(D) /\ 14 \in Nat /\ 34 \in Nat
    BY <1>2, <1>3, <1>5
  <2>2. Occurs(D, 14, H) /\ Occurs(D, 34, B)
    BY <1>1, <1>2, <1>3, <2>1, Zenon
  <2>3. Len(D) - 14 <= EthernetMaxPayload /\ Len(D) >= 14
    BY <1>1, <1>2, <1>3, <1>4, <1>5
  <2>4. Within(D, H, B)
    BY <1>1, <1>3, <2>2, <2>3, Zenon DEF Within
  <2>5. Delivered(l, D, m)
    BY <2>4, WholeTaken, Zenon
  <2> QED
    BY <2>5, Zenon DEF Delivered, Harmless
<1>6. CASE ~(Len(D) >= 34 + Len(B))
  <2>1. ~InFrame(D, ETHERNET_TYPE_ARP)
    <3>1. ETHERNET_TYPE_IPV4 # ETHERNET_TYPE_ARP
      BY DEF ETHERNET_TYPE_IPV4, ETHERNET_TYPE_ARP
    <3> QED
      BY <1>1, <1>3, <3>1 DEF InFrame
  <2>2. ASSUME InFrame(D, ETHERNET_TYPE_IPV4), Fine(From(D, 14)) PROVE FALSE
    <3> DEFINE Q == From(D, 14)
    <3>1. 14 <= Len(D) /\ 14 \in Nat
      BY <2>2 DEF InFrame
    <3>2. Len(Q) = Len(D) - 14 /\ \A j \in 1 .. (Len(D) - 14) : Q[j] = D[14 + j]
      BY <1>3, <3>1, FromIs
    <3>3. 20 <= Len(Q) /\ PacketSize(Q) <= Len(Q)
      BY <2>2, Zenon DEF Fine
    <3> HIDE DEF Q
    <3>4. Q[3] = H[3] /\ Q[4] = H[4]
      <4>1. E[14 + 3] = H[3] /\ E[14 + 4] = H[4]
        BY <1>1, <1>2 DEF Occurs
      <4>2. Len(D) >= 34
        BY <1>3, <3>2, <3>3
      <4>3. D[14 + 3] = E[14 + 3] /\ D[14 + 4] = E[14 + 4]
        BY <1>3, <4>2
      <4>4. Q[3] = D[14 + 3] /\ Q[4] = D[14 + 4]
        BY <1>3, <3>2, <4>2
      <4> QED
        BY <4>1, <4>3, <4>4
    <3>5. PacketSize(Q) = 20 + Len(B)
      <4>1. Q[2 + 1] = H[2 + 1] /\ Q[2 + 2] = H[2 + 2]
        BY <3>4
      <4> QED
        BY <1>2, <4>1, Zenon DEF PacketSize, read_u16_be
    <3> QED
      BY <1>2, <1>3, <1>6, <3>2, <3>3, <3>5
  <2>3. CASE l = "arp"
    BY <2>1, <2>3, NotArp, Zenon DEF Harmless
  <2>4. CASE l # "arp"
    <3>1. l \in {"tcp", "udp", "icmp"}
      BY <2>4 DEF Listener
    <3>2. Accept(l, D).rc # 0
      BY <2>2, <3>1, NotIpv4, Zenon
    <3> QED
      BY <3>2, Zenon DEF Harmless
  <2> QED
    BY <2>3, <2>4
<1> QED
  BY <1>5, <1>6

\* An ARP packet.
LEMMA ArpCutHarmless ==
  ASSUME NEW m \in Messages, m.kind = "arp", NEW l \in Listener, NEW E, NEW A,
         HoldsArp(E, A), ArpAt(A, m.packet), IsArp(m.packet),
         m.packet.sender_ip = m.from, m.packet.target_ip = m.to,
         NEW D \in Seq(Byte), Occurs(E, 0, D)
  PROVE  Harmless(l, D, m)
<1>1. /\ E \in Seq(Byte) /\ Len(E) - 14 <= EthernetMaxPayload
      /\ read_u16_be(E, 12) = ETHERNET_TYPE_ARP /\ Occurs(E, 14, A)
  BY DEF HoldsArp
<1>2. A \in Seq(Byte) /\ Len(A) = 28
  BY Zenon DEF ArpAt
<1>3. /\ Len(D) \in Nat /\ Len(E) \in Nat /\ Len(D) <= Len(E)
      /\ Len(D) >= 14 => read_u16_be(D, 12) = read_u16_be(E, 12)
      /\ \A x \in Seq(Byte) : \A o \in Nat :
           Occurs(E, o, x) /\ o + Len(x) <= Len(D) => Occurs(D, o, x)
  BY <1>1, Rest, Zenon
<1>4. EthernetMaxPayload \in Nat
  BY EthernetAssumption
<1>5. CASE Len(D) >= 42
  <2>1. 14 + Len(A) <= Len(D) /\ 14 \in Nat
    BY <1>2, <1>3, <1>5
  <2>2. Occurs(D, 14, A)
    BY <1>1, <1>2, <1>3, <2>1, Zenon
  <2>3. Len(D) - 14 <= EthernetMaxPayload /\ Len(D) >= 14
    BY <1>1, <1>3, <1>4, <1>5
  <2>4. HoldsArp(D, A)
    BY <1>1, <1>3, <2>2, <2>3, Zenon DEF HoldsArp
  <2>5. Delivered(l, D, m)
    BY <2>4, ArpTaken, Zenon
  <2> QED
    BY <2>5, Zenon DEF Delivered, Harmless
<1>6. CASE ~(Len(D) >= 42)
  <2>1. ~InFrame(D, ETHERNET_TYPE_IPV4)
    <3>1. ETHERNET_TYPE_IPV4 # ETHERNET_TYPE_ARP
      BY DEF ETHERNET_TYPE_IPV4, ETHERNET_TYPE_ARP
    <3> QED
      BY <1>1, <1>3, <3>1 DEF InFrame
  <2>2. ~ArpOk(D)
    <3>1. CASE 14 <= Len(D) /\ Len(D) - 14 <= EthernetMaxPayload
      <4>1. ethernet_parse(D).payload = From(D, 14)
        BY <3>1, EthernetRead, Zenon
      <4>2. Len(From(D, 14)) = Len(D) - 14
        BY <1>3, <3>1, FromIs
      <4>3. Len(From(D, 14)) < ARP_PACKET_LEN
        BY <1>3, <1>6, <4>2 DEF ARP_PACKET_LEN
      <4>4. arp_parse(From(D, 14)) = Fail(-2)
        BY <4>3, Zenon DEF arp_parse
      <4>5. Fail(-2).rc # 0
        BY DEF Fail
      <4> QED
        BY <4>1, <4>4, <4>5, Zenon DEF ArpOk, ArpOf
    <3>2. CASE ~(14 <= Len(D) /\ Len(D) - 14 <= EthernetMaxPayload)
      BY <3>2, EthernetRead, Zenon DEF ArpOk
    <3> QED
      BY <3>1, <3>2
  <2>3. CASE l = "arp"
    BY <2>2, <2>3, TakenIs, Zenon DEF Harmless
  <2>4. CASE l # "arp"
    <3>1. l \in {"tcp", "udp", "icmp"}
      BY <2>4 DEF Listener
    <3>2. Accept(l, D).rc # 0
      BY <2>1, <3>1, NotIpv4, Zenon
    <3> QED
      BY <3>2, Zenon DEF Harmless
  <2> QED
    BY <2>3, <2>4
<1> QED
  BY <1>5, <1>6

(***************************************************************************)
(* Frames with a changed byte.                                             *)
(***************************************************************************)
\* A part of the frame is as it was, or has the changed byte.
LEMMA ChangedPart ==
  ASSUME NEW E \in Seq(Byte), NEW D \in Seq(Byte), NEW i, ChangedAt(E, D, i),
         NEW x \in Seq(Byte), NEW o \in Nat, Occurs(E, o, x)
  PROVE  /\ (i <= o \/ i > o + Len(x)) => Occurs(D, o, x)
         /\ ~(i <= o \/ i > o + Len(x)) =>
              \E y \in Seq(Byte) : Occurs(D, o, y) /\ ChangedAt(x, y, i - o)
<1> DEFINE n == Len(x)
           L == Len(E)
<1>1. /\ n \in Nat /\ L \in Nat /\ o + n <= L /\ \A j \in 1 .. n : E[o + j] = x[j]
  BY DEF Occurs
<1>2. Len(D) = L /\ i \in 1 .. L /\ D[i] # E[i] /\ \A j \in 1 .. L : j # i => D[j] = E[j]
  BY DEF ChangedAt
<1> HIDE DEF n, L
<1>3. ASSUME i <= o \/ i > o + n PROVE Occurs(D, o, x)
  <2>1. ASSUME NEW j \in 1 .. n PROVE D[o + j] = x[j]
    <3>1. o + j \in 1 .. L /\ o + j # i
      BY <1>1, <1>2, <1>3
    <3> QED
      BY <1>1, <1>2, <3>1
  <2> QED
    BY <1>1, <1>2, <2>1 DEF Occurs, n
<1>4. ASSUME ~(i <= o \/ i > o + n)
      PROVE  \E y \in Seq(Byte) : Occurs(D, o, y) /\ ChangedAt(x, y, i - o)
  <2> DEFINE y == Slice(D, o, n)
  <2>1. y \in Seq(Byte) /\ Len(y) = n /\ \A j \in 1 .. n : y[j] = D[o + j]
    BY <1>1, <1>2, SliceIs
  <2> HIDE DEF y
  <2>2. Occurs(D, o, y)
    BY <1>1, <1>2, <2>1 DEF Occurs
  <2>3. i - o \in 1 .. n /\ o + (i - o) = i
    BY <1>1, <1>2, <1>4
  <2>4. y[i - o] # x[i - o]
    BY <1>1, <1>2, <2>1, <2>3
  <2>5. ASSUME NEW j \in 1 .. n, j # i - o PROVE y[j] = x[j]
    <3>1. o + j \in 1 .. L /\ o + j # i
      BY <1>1, <1>2, <2>5
    <3> QED
      BY <1>1, <1>2, <2>1, <3>1
  <2>6. ChangedAt(x, y, i - o)
    BY <2>1, <2>3, <2>4, <2>5 DEF ChangedAt, n
  <2> QED
    BY <2>1, <2>2, <2>6
<1> QED
  BY <1>3, <1>4 DEF n

\* The i-th byte does not belong to the n bytes at o.
Outside(i, o, n) == i <= o \/ i > o + n

\* A part with the changed byte outside it is still there.
LEMMA PartStays ==
  ASSUME NEW E \in Seq(Byte), NEW D \in Seq(Byte), NEW i, ChangedAt(E, D, i),
         NEW x \in Seq(Byte), NEW o \in Nat, Occurs(E, o, x), Outside(i, o, Len(x))
  PROVE  Occurs(D, o, x)
BY ChangedPart DEF Outside

\* A part with the changed byte inside it is there with a changed byte.
LEMMA PartChanged ==
  ASSUME NEW E \in Seq(Byte), NEW D \in Seq(Byte), NEW i, ChangedAt(E, D, i),
         NEW x \in Seq(Byte), NEW o \in Nat, Occurs(E, o, x), ~Outside(i, o, Len(x))
  PROVE  \E y \in Seq(Byte) : Occurs(D, o, y) /\ ChangedAt(x, y, i - o)
BY ChangedPart DEF Outside

\* A changed byte of the addresses, or of the padding, is of no importance.
LEMMA DamageOutside ==
  ASSUME NEW m \in Messages, m.kind # "arp", NEW l \in Listener, NEW E, NEW H, NEW B,
         Within(E, H, B), Sound(H, B, m), NEW D \in Seq(Byte), NEW i, ChangedAt(E, D, i),
         i <= 12 \/ i > 34 + Len(B)
  PROVE  Harmless(l, D, m)
<1>1. /\ E \in Seq(Byte) /\ Len(E) - 14 <= EthernetMaxPayload
      /\ read_u16_be(E, 12) = ETHERNET_TYPE_IPV4 /\ Occurs(E, 14, H) /\ Occurs(E, 34, B)
  BY DEF Within
<1>2. H \in Seq(Byte) /\ Len(H) = 20 /\ B \in Seq(Byte) /\ Len(B) \in Nat
  <2>1. H \in Seq(Byte) /\ Len(H) = 20 /\ B \in Seq(Byte)
    BY Zenon DEF Sound, Header, BodyAt
  <2> QED
    BY <2>1
<1>3. /\ Len(D) = Len(E) /\ i \in 1 .. Len(E) /\ Len(E) \in Nat
      /\ \A j \in 1 .. Len(E) : j # i => D[j] = E[j]
  BY <1>1 DEF ChangedAt
<1>4. Len(E) >= 34 + Len(B)
  BY <1>1 DEF Occurs
<1>5. Outside(i, 14, Len(H)) /\ Outside(i, 34, Len(B)) /\ 14 \in Nat /\ 34 \in Nat
  BY <1>2, <1>3 DEF Outside
<1>6. Occurs(D, 14, H) /\ Occurs(D, 34, B)
  <2>1. \A x \in Seq(Byte) : \A o \in Nat :
          Occurs(E, o, x) /\ Outside(i, o, Len(x)) => Occurs(D, o, x)
    BY <1>1, PartStays, Zenon
  <2> QED
    BY <1>1, <1>2, <1>5, <2>1, Zenon
<1>7. read_u16_be(D, 12) = read_u16_be(E, 12)
  <2>1. D[12 + 1] = E[12 + 1] /\ D[12 + 2] = E[12 + 2]
    BY <1>2, <1>3, <1>4
  <2> QED
    BY <2>1, Zenon DEF read_u16_be
<1>8. Within(D, H, B)
  BY <1>1, <1>3, <1>6, <1>7, Zenon DEF Within
<1>9. Delivered(l, D, m)
  BY <1>8, WholeTaken, Zenon
<1> QED
  BY <1>9, Zenon DEF Delivered, Harmless

\* A changed byte of the type: what follows is no ARP packet.
LEMMA DamageType ==
  ASSUME NEW m \in Messages, m.kind # "arp", NEW l \in Listener, NEW E, NEW H, NEW B,
         Within(E, H, B), Sound(H, B, m), NEW D \in Seq(Byte), NEW i, ChangedAt(E, D, i),
         i = 13 \/ i = 14
  PROVE  Harmless(l, D, m)
<1>1. /\ E \in Seq(Byte) /\ read_u16_be(E, 12) = ETHERNET_TYPE_IPV4
      /\ Occurs(E, 14, H) /\ Occurs(E, 34, B)
  BY DEF Within
<1>2. /\ H \in Seq(Byte) /\ Len(H) = 20 /\ H[1] = 69 /\ H[2] = 0 /\ B \in Seq(Byte)
      /\ Len(B) \in Nat
  <2>1. H \in Seq(Byte) /\ Len(H) = 20 /\ H[1] = 69 /\ H[2] = 0 /\ B \in Seq(Byte)
    BY Zenon DEF Sound, Header, BodyAt
  <2> QED
    BY <2>1
<1>3. /\ Len(D) = Len(E) /\ i \in 1 .. Len(E) /\ Len(E) \in Nat /\ D[i] # E[i]
      /\ \A j \in 1 .. Len(E) : j # i => D[j] = E[j]
  BY <1>1 DEF ChangedAt
<1>4. Len(E) >= 34 + Len(B)
  BY <1>1 DEF Occurs
<1>5. read_u16_be(D, 12) # ETHERNET_TYPE_IPV4
  <2> DEFINE a == E[13]
             b == E[14]
             x == D[13]
             y == D[14]
  <2>1. (x = a /\ y # b) \/ (x # a /\ y = b)
    BY <1>2, <1>3, <1>4
  <2>2. a \in Nat /\ a <= 255 /\ b \in Nat /\ b <= 255 /\ x \in Nat /\ x <= 255 /\ y \in Nat /\ y <= 255
    <3>1. a \in Byte /\ b \in Byte /\ x \in Byte /\ y \in Byte
      BY <1>1, <1>2, <1>3, <1>4
    <3> QED
      BY <3>1, ByteIs
  <2>3. read_u16_be(E, 12) = a * 256 + b /\ read_u16_be(D, 12) = x * 256 + y
    BY DEF read_u16_be
  <2> HIDE DEF a, b, x, y
  <2>4. x * 256 + y # a * 256 + b
    BY <2>1, <2>2, SMT
  <2> QED
    BY <1>1, <2>3, <2>4
<1>6. ~InFrame(D, ETHERNET_TYPE_IPV4)
  BY <1>5, Zenon DEF InFrame
<1>7. ~ArpOk(D)
  <2> DEFINE Q == From(D, 14)
  <2>1. Occurs(D, 14, H)
    <3>1. Outside(i, 14, Len(H)) /\ 14 \in Nat
      BY <1>3 DEF Outside
    <3>2. \A x \in Seq(Byte) : \A o \in Nat :
            Occurs(E, o, x) /\ Outside(i, o, Len(x)) => Occurs(D, o, x)
      BY <1>1, PartStays, Zenon
    <3> QED
      BY <1>1, <1>2, <3>1, <3>2, Zenon
  <2>2. 14 \in Nat /\ 14 <= Len(D) /\ 20 <= Len(D) - 14 /\ Len(D) \in Nat
    BY <1>2, <1>3, <1>4
  <2>3. \A j \in 1 .. (Len(D) - 14) : Q[j] = D[14 + j]
    BY <2>2, FromIs
  <2>4. D[14 + 1] = 69 /\ D[14 + 2] = 0
    BY <1>2, <2>1 DEF Occurs
  <2>5. Q[0 + 1] = 69 /\ Q[0 + 2] = 0
    <3> HIDE DEF Q
    <3>1. Q[1] = D[14 + 1] /\ Q[2] = D[14 + 2]
      BY <2>2, <2>3
    <3> QED
      BY <2>4, <3>1
  <2>6. read_u16_be(Q, 0) # ARP_ETHERNET
    <3> HIDE DEF Q
    <3> QED
      BY <2>5 DEF read_u16_be, ARP_ETHERNET
  <2>7. Fail(-2).rc # 0 /\ Fail(-3).rc # 0
    BY DEF Fail
  <2>8. arp_parse(Q) = Fail(-2) \/ arp_parse(Q) = Fail(-3)
    <3> HIDE DEF Q
    <3> QED
      BY <2>6, Zenon DEF arp_parse
  <2>9. arp_parse(Q).rc # 0
    <3> HIDE DEF Q
    <3> QED
      BY <2>7, <2>8, Zenon
  <2>10. ethernet_parse(D).rc = 0 => ethernet_parse(D).payload = Q
    BY EthernetRead, Zenon
  <2> QED
    BY <2>9, <2>10, Zenon DEF ArpOk, ArpOf
<1>8. CASE l = "arp"
  BY <1>7, <1>8, TakenIs, Zenon DEF Harmless
<1>9. CASE l # "arp"
  <2>1. l \in {"tcp", "udp", "icmp"}
    BY <1>9 DEF Listener
  <2> QED
    BY <1>6, <2>1, NotIpv4, Zenon DEF Harmless
<1> QED
  BY <1>8, <1>9

\* A changed byte of the IPv4 header, other than the first, is found by the header's sum.
LEMMA DamageHeader ==
  ASSUME NEW m \in Messages, m.kind # "arp", NEW l \in Listener, NEW E, NEW H, NEW B,
         Within(E, H, B), Sound(H, B, m), NEW D \in Seq(Byte), NEW i, ChangedAt(E, D, i),
         16 <= i, i <= 34
  PROVE  Harmless(l, D, m)
<1>1. /\ E \in Seq(Byte) /\ read_u16_be(E, 12) = ETHERNET_TYPE_IPV4
      /\ Occurs(E, 14, H) /\ Occurs(E, 34, B)
  BY DEF Within
<1>2. /\ H \in Seq(Byte) /\ Len(H) = 20 /\ H[1] = 69 /\ B \in Seq(Byte)
      /\ Len(B) \in Nat /\ Sealed(0, H)
  <2>1. H \in Seq(Byte) /\ Len(H) = 20 /\ H[1] = 69 /\ B \in Seq(Byte) /\ Sealed(0, H)
    BY Zenon DEF Sound, Header, BodyAt
  <2> QED
    BY <2>1
<1>3. /\ Len(D) = Len(E) /\ i \in 1 .. Len(E) /\ Len(E) \in Nat
      /\ \A j \in 1 .. Len(E) : j # i => D[j] = E[j]
  BY <1>1 DEF ChangedAt
<1>4. Len(E) >= 34 + Len(B)
  BY <1>1 DEF Occurs
<1>5. read_u16_be(D, 12) = ETHERNET_TYPE_IPV4
  <2>1. D[12 + 1] = E[12 + 1] /\ D[12 + 2] = E[12 + 2]
    BY <1>2, <1>3, <1>4
  <2> QED
    BY <1>1, <2>1, Zenon DEF read_u16_be
<1>6. PICK y \in Seq(Byte) : Occurs(D, 14, y) /\ ChangedAt(H, y, i - 14)
  <2>1. ~Outside(i, 14, Len(H)) /\ 14 \in Nat
    BY <1>2, <1>3 DEF Outside
  <2> QED
    <3>1. \A o \in Nat : \A x \in Seq(Byte) : Occurs(E, o, x) /\ ~Outside(i, o, Len(x)) =>
            \E y \in Seq(Byte) : Occurs(D, o, y) /\ ChangedAt(x, y, i - o)
      BY <1>1, PartChanged, Zenon
    <3> QED
      BY <1>1, <1>2, <2>1, <3>1, Zenon
<1>7. Len(y) = 20 /\ y[1] = 69
  <2>1. i - 14 # 1
    BY <1>3
  <2> QED
    BY <1>2, <1>6, <2>1 DEF ChangedAt
<1>8. ~Sealed(0, y)
  <2>1. ~Alike(add_bytes(0, H), add_bytes(0, y))
    BY <1>2, <1>6, SumChanged, SmallWords
  <2> QED
    BY <1>2, <2>1 DEF Sealed, Alike
<1>9. ~Fine(From(D, 14))
  <2> DEFINE Q == From(D, 14)
             o == 14
  <2>1. o \in Nat /\ o <= Len(D) /\ 0 + 20 <= Len(D) - 14
    BY <1>2, <1>3, <1>4
  <2>2. Q \in Seq(Byte) /\ Len(Q) = Len(D) - 14 /\ \A j \in 1 .. (Len(D) - 14) : Q[j] = D[14 + j]
    BY <2>1, FromIs
  <2> HIDE DEF Q
  <2>3. Q[1] = 69
    <3>1. D[14 + 1] = 69
      BY <1>6, <1>7 DEF Occurs
    <3> QED
      BY <1>3, <2>1, <2>2, <3>1
  <2>4. HeaderSize(Q) = 20
    BY <2>3 DEF HeaderSize
  <2>5. Occurs(Q, 0, y)
    <3>1. \A j \in 1 .. 20 : D[14 + j] = y[j]
      BY <1>7, <1>6 DEF Occurs
    <3>2. ASSUME NEW j \in 1 .. 20 PROVE Q[0 + j] = y[j]
      <4>1. 0 + j = j /\ j \in 1 .. (Len(D) - 14)
        BY <1>3, <2>1
      <4> QED
        BY <2>2, <3>1, <4>1
    <3> QED
      BY <1>3, <1>7, <2>1, <2>2, <3>2 DEF Occurs
  <2>6. Slice(Q, 0, 20) = y
    <3>1. Slice(Q, 0, Len(y)) = y
      BY <1>6, <2>2, <2>5, SliceOf, Zenon
    <3> QED
      BY <1>7, <3>1, Zenon
  <2>7. ~Fine(Q)
    BY <1>8, <2>4, <2>6, Zenon DEF Fine
  <2> QED
    BY <2>7 DEF Q
<1>10. CASE l = "arp"
  <2>1. ETHERNET_TYPE_IPV4 # ETHERNET_TYPE_ARP
    BY DEF ETHERNET_TYPE_IPV4, ETHERNET_TYPE_ARP
  <2>2. ~InFrame(D, ETHERNET_TYPE_ARP)
    BY <1>5, <2>1, Zenon DEF InFrame
  <2> QED
    BY <1>10, <2>2, NotArp, Zenon DEF Harmless
<1>11. CASE l # "arp"
  <2>1. l \in {"tcp", "udp", "icmp"}
    BY <1>11 DEF Listener
  <2> QED
    BY <1>9, <2>1, NotIpv4, Zenon DEF Harmless
<1> QED
  BY <1>10, <1>11

\* A sum that was right is wrong with a changed byte.
LEMMA SealBroken ==
  ASSUME NEW s \in Word, NEW d \in Seq(Byte), NEW e \in Seq(Byte), NEW i, ChangedAt(d, e, i),
         Sealed(s, d)
  PROVE  ~Sealed(s, e)
<1>1. ~Alike(add_bytes(s, d), add_bytes(s, e))
  BY SumChanged
<1> QED
  BY <1>1 DEF Sealed, Alike

\* An echo message is parsed only with a right sum.
LEMMA IcmpSealed ==
  ASSUME NEW z \in Seq(Byte), icmp_parse(z).rc = 0
  PROVE  Sealed(0, z)
<1>1. icmp_checksum(z) = 0
  <2> SUFFICES ASSUME icmp_checksum(z) # 0 PROVE FALSE
    OBVIOUS
  <2>1. icmp_parse(z) \in {Fail(-2), Fail(-3), Fail(-4), Fail(-5)}
    BY Zenon DEF icmp_parse
  <2>2. Fail(-2).rc # 0 /\ Fail(-3).rc # 0 /\ Fail(-4).rc # 0 /\ Fail(-5).rc # 0
    BY DEF Fail
  <2> QED
    BY <2>1, <2>2, Zenon
<1>2. 0 \in Word
  BY SmallWords
<1> QED
  BY <1>1, <1>2, SealSeen, Zenon DEF icmp_checksum

\* A changed byte of the packet behind the header is found by the packet's own sum, or it made
\* a UDP datagram one without checksum.
LEMMA DamageBody ==
  ASSUME NEW m \in Messages, m.kind # "arp", NEW l \in Listener, NEW E, NEW H, NEW B,
         Within(E, H, B), Sound(H, B, m), NEW D \in Seq(Byte), NEW i, ChangedAt(E, D, i),
         35 <= i, i <= 34 + Len(B)
  PROVE  Harmless(l, D, m)
<1> DEFINE p == ProtocolOf(m.kind)
<1>1. /\ E \in Seq(Byte) /\ read_u16_be(E, 12) = ETHERNET_TYPE_IPV4
      /\ Len(E) - 14 <= EthernetMaxPayload /\ Occurs(E, 14, H) /\ Occurs(E, 34, B)
  BY DEF Within
<1>2. /\ Header(H, m.from, m.to, p, Len(B)) /\ Sealed(0, H) /\ BodyAt(B, m)
      /\ 20 + Len(B) <= EthernetMaxPayload
      /\ H \in Seq(Byte) /\ Len(H) = 20 /\ B \in Seq(Byte)
  BY Zenon DEF Sound, Header, BodyAt
<1>3. /\ Len(D) = Len(E) /\ i \in 1 .. Len(E) /\ Len(E) \in Nat /\ Len(B) \in Nat
      /\ \A j \in 1 .. Len(E) : j # i => D[j] = E[j]
  BY <1>1, <1>2 DEF ChangedAt
<1>4. IsIp(m.from) /\ IsIp(m.to) /\ m.kind \in {"tcp", "udp", "icmp"}
  BY BodyIs, Zenon
<1>5. Occurs(D, 14, H)
  <2>1. Outside(i, 14, Len(H)) /\ 14 \in Nat
    BY <1>2, <1>3 DEF Outside
  <2>2. \A x \in Seq(Byte) : \A o \in Nat :
          Occurs(E, o, x) /\ Outside(i, o, Len(x)) => Occurs(D, o, x)
    BY <1>1, PartStays, Zenon
  <2> QED
    BY <1>1, <1>2, <2>1, <2>2, Zenon
<1>6. PICK C \in Seq(Byte) : Occurs(D, 34, C) /\ ChangedAt(B, C, i - 34)
  <2>1. ~Outside(i, 34, Len(B)) /\ 34 \in Nat
    BY <1>3 DEF Outside
  <2> QED
    BY <1>1, <1>2, <2>1, PartChanged, Zenon
<1>7. Len(C) = Len(B)
  BY <1>6 DEF ChangedAt
<1>8. read_u16_be(D, 12) = ETHERNET_TYPE_IPV4
  <2>1. Len(E) >= 34 + Len(B)
    BY <1>1 DEF Occurs
  <2>2. D[12 + 1] = E[12 + 1] /\ D[12 + 2] = E[12 + 2]
    BY <1>3, <2>1
  <2> QED
    BY <1>1, <2>2, Zenon DEF read_u16_be
<1>9. Within(D, H, C)
  BY <1>1, <1>3, <1>5, <1>6, <1>8, Zenon DEF Within
<1>10. Header(H, m.from, m.to, p, Len(C))
  BY <1>2, <1>7, Zenon
<1> HIDE DEF p
<1>11. Reads(D, m, p, C)
  BY <1>2, <1>4, <1>6, <1>9, <1>10, Ipv4Taken, Zenon
<1>12. /\ p = IPV4_PROTOCOL_TCP <=> m.kind = "tcp"
       /\ p = IPV4_PROTOCOL_UDP <=> m.kind = "udp"
       /\ p = IPV4_PROTOCOL_ICMP <=> m.kind = "icmp"
  BY Protocols, Zenon DEF p
<1>13. Len(C) <= MaxPacketLen
  <2>1. EthernetMaxPayload \in Nat /\ MaxPacketLen \in Nat
    BY EthernetAssumption, ChecksumAssumption
  <2> QED
    BY <1>2, <1>3, <1>7, <2>1, FramePathAssumption
<1>14. CASE l = "tcp"
  <2> SUFFICES ASSUME TcpOk(D) PROVE FALSE
    BY <1>14, TakenIs, Zenon DEF Harmless
  <2>1. m.kind = "tcp" /\ tcp_checksum_ipv4_valid(m.from, m.to, C)
    BY <1>11, <1>12, Zenon DEF Reads, TcpOk
  <2> DEFINE q == pseudo_header_sum(m.from, m.to, TCP_PROTOCOL, Len(B))
  <2>2. Len(B) \in Word /\ Sealed(q, B)
    BY <1>2, <2>1, Zenon DEF BodyAt
  <2>3. q \in Word
    <3>1. TCP_PROTOCOL \in Word
      BY SmallWords DEF TCP_PROTOCOL
    <3> QED
      BY <1>4, <2>2, <3>1, PseudoIs
  <2>4. checksum_finish(add_bytes(q, C)) = 0
    <3>1. checksum_finish(tcp_checksum_sum_ipv4(m.from, m.to, C)) = 0
      BY <2>1, SMT DEF tcp_checksum_ipv4_valid
    <3> QED
      BY <1>7, <3>1, Zenon DEF tcp_checksum_sum_ipv4
  <2> HIDE DEF q
  <2> QED
    BY <1>2, <1>6, <2>2, <2>3, <2>4, SealSeen, SealBroken, ZenonT(40)
<1>15. CASE l = "icmp"
  <2> SUFFICES ASSUME IcmpOk(D) PROVE FALSE
    BY <1>15, TakenIs, Zenon DEF Harmless
  <2>1. m.kind = "icmp" /\ icmp_parse(C).rc = 0
    BY <1>11, <1>12, Zenon DEF Reads, IcmpOk, IcmpOf
  <2>2. Sealed(0, B)
    BY <1>2, <2>1, Zenon DEF BodyAt
  <2>3. Sealed(0, C)
    BY <2>1, <1>6, IcmpSealed, Zenon
  <2>4. 0 \in Word
    BY SmallWords
  <2> QED
    BY <1>2, <1>6, <2>2, <2>3, <2>4, SealBroken, Zenon
<1>16. CASE l = "udp"
  <2> SUFFICES ASSUME UdpOk(D)
               PROVE  MeantFor(m, "udp") /\ Content(UdpOf(D)) = Content(m.packet)
    BY <1>16, TakenIs, Zenon DEF Harmless
  <2>1. /\ m.kind = "udp" /\ m.from = Peer /\ m.to = Self /\ UdpOf(D) = udp_parse(C)
        /\ udp_checksum_ipv4_valid(m.from, m.to, C)
        /\ UdpOf(D).source_port = PeerPort /\ UdpOf(D).destination_port = SelfPort
    BY <1>11, <1>12, Zenon DEF Reads, UdpOk, UdpOf
  <2> DEFINE q == pseudo_header_sum(m.from, m.to, UDP_PROTOCOL, Len(B))
  <2>2. /\ IsUdp(m.packet) /\ UdpAt(B, m.packet) /\ Len(B) \in Word /\ Sealed(q, B)
        /\ read_u16_be(B, 6) # 0
    BY <1>2, <2>1, Zenon DEF BodyAt
  <2>3. q \in Word
    <3>1. UDP_PROTOCOL \in Word
      BY SmallWords DEF UDP_PROTOCOL
    <3> QED
      BY <1>4, <2>2, <3>1, PseudoIs
  <2>4. read_u16_be(C, 6) # 0 => checksum_finish(add_bytes(q, C)) = 0
    BY <1>7, <2>1, Zenon DEF udp_checksum_ipv4_valid, udp_sum
  <2> HIDE DEF q
  <2>5. read_u16_be(C, 6) = 0
    <3>1. ~Sealed(q, C)
      BY <1>2, <1>6, <2>2, <2>3, SealBroken, Zenon
    <3>2. checksum_finish(add_bytes(q, C)) # 0
      BY <1>6, <2>3, <3>1, SealSeen, Zenon
    <3> QED
      BY <2>4, <3>2, Zenon
  <2>6. \A j \in 1 .. Len(B) : j # 7 /\ j # 8 => C[j] = B[j]
    <3>1. \A j \in 1 .. Len(B) : j # i - 34 => C[j] = B[j]
      BY <1>6 DEF ChangedAt
    <3>2. i - 34 = 7 \/ i - 34 = 8
      <4> SUFFICES ASSUME i - 34 # 7, i - 34 # 8 PROVE FALSE
        OBVIOUS
      <4>1. Len(B) >= 8
        <5>1. Len(B) = 8 + Len(m.packet.payload)
          BY <2>2, Zenon DEF UdpAt
        <5>2. Len(m.packet.payload) \in Nat
          BY BodyIs, Zenon
        <5> QED
          BY <5>1, <5>2
      <4>2. C[6 + 1] = B[6 + 1] /\ C[6 + 2] = B[6 + 2]
        BY <1>3, <3>1, <4>1
      <4>3. read_u16_be(C, 6) = read_u16_be(B, 6)
        BY <4>2, Zenon DEF read_u16_be
      <4> QED
        BY <2>2, <2>5, <4>3, Zenon
    <3> QED
      BY <3>1, <3>2
  <2>7. UdpAt(C, m.packet)
    BY <1>6, <1>7, <2>2, <2>6, UdpPatched
  <2>8. /\ Content(udp_parse(C)) = Content(m.packet)
        /\ udp_parse(C).source_port = m.packet.source_port
        /\ udp_parse(C).destination_port = m.packet.destination_port
    BY <1>13, <2>2, <2>7, UdpRead, Zenon
  <2> QED
    BY <2>1, <2>8, MeantIs, Zenon
<1>17. CASE l = "arp"
  <2>1. ETHERNET_TYPE_IPV4 # ETHERNET_TYPE_ARP
    BY DEF ETHERNET_TYPE_IPV4, ETHERNET_TYPE_ARP
  <2>2. ~InFrame(D, ETHERNET_TYPE_ARP)
    BY <1>8, <2>1, Zenon DEF InFrame
  <2> QED
    BY <1>17, <2>2, NotArp, Zenon DEF Harmless
<1> QED
  BY <1>14, <1>15, <1>16, <1>17 DEF Listener

\* A buffer with its first two bytes zeroed.
LEMMA Blanked ==
  ASSUME NEW d \in Seq(Byte), 2 <= Len(d)
  PROVE  /\ Patch(d, 0, 0) \in Seq(Byte) /\ Len(Patch(d, 0, 0)) = Len(d)
         /\ read_u16_be(Patch(d, 0, 0), 0) = 0
         /\ \A j \in 1 .. Len(d) : j # 0 + 1 /\ j # 0 + 2 => Patch(d, 0, 0)[j] = d[j]
<1> DEFINE o == 0
           v == 0
<1>1. o \in Nat /\ v \in Word /\ o + 2 <= Len(d)
  BY SmallWords
<1> HIDE DEF o, v
<1>2. /\ Patch(d, o, v) \in Seq(Byte) /\ Len(Patch(d, o, v)) = Len(d)
      /\ read_u16_be(Patch(d, o, v), o) = v
      /\ \A j \in 1 .. Len(d) : j # o + 1 /\ j # o + 2 => Patch(d, o, v)[j] = d[j]
  BY <1>1, PatchIs
<1> QED
  BY <1>2 DEF o, v

\* A header that says it is k words longer than it is: so much is missing from its sum.
LEMMA LongerHeader ==
  ASSUME NEW H \in Seq(Byte), Len(H) = 20, H[1] = 69, H[2] = 0, Sealed(0, H),
         NEW G \in Seq(Byte), ChangedAt(H, G, 1), NEW k \in 1 .. 10, G[1] = 69 + k
  PROVE  add_bytes(0, G) = 256 * k
<1> DEFINE Z == Patch(H, 0, 0)
           c == 17664
           e == 17664 + 256 * k
<1>1. /\ Z \in Seq(Byte) /\ Len(Z) = 20 /\ read_u16_be(Z, 0) = 0
      /\ \A j \in 1 .. 20 : j # 0 + 1 /\ j # 0 + 2 => Z[j] = H[j]
  <2> HIDE DEF c, e
  <2>1. 2 <= Len(H)
    OBVIOUS
  <2>2. Z \in Seq(Byte) /\ Len(Z) = Len(H) /\ read_u16_be(Z, 0) = 0
    BY <2>1, Blanked, Zenon
  <2>3. \A j \in 1 .. Len(H) : j # 0 + 1 /\ j # 0 + 2 => Z[j] = H[j]
    BY <2>1, Blanked, Zenon
  <2> HIDE DEF Z
  <2> QED
    BY <2>2, <2>3
<1>2. Len(G) = 20 /\ \A j \in 1 .. 20 : j # 1 => G[j] = H[j]
  BY DEF ChangedAt
<1> HIDE DEF Z
<1>3. WrittenAt(Z, H, 0, c)
  <2>1. read_u16_be(H, 0) = c
    BY DEF read_u16_be
  <2> HIDE DEF c
  <2> QED
    BY <1>1, <2>1 DEF WrittenAt
<1>4. WrittenAt(Z, G, 0, e)
  <2>1. read_u16_be(G, 0) = e
    <3>1. G[2] = 0
      BY <1>2
    <3> QED
      BY <3>1 DEF read_u16_be
  <2>2. \A j \in 1 .. 20 : j # 0 + 1 /\ j # 0 + 2 => G[j] = Z[j]
    <3> TAKE j \in 1 .. 20
    <3>1. j # 0 + 1 /\ j # 0 + 2 => G[j] = H[j]
      <4>1. j # 0 + 1 => j # 1
        OBVIOUS
      <4> QED
        BY <1>2, <4>1, Zenon
    <3>2. j # 0 + 1 /\ j # 0 + 2 => Z[j] = H[j]
      BY <1>1
    <3> QED
      BY <3>1, <3>2
  <2> HIDE DEF e
  <2> QED
    BY <1>1, <1>2, <2>1, <2>2 DEF WrittenAt
<1> DEFINE a == add_bytes(0, Z)
<1>5. 0 \in Word
  BY SmallWords
<1>6. a \in Word
  BY <1>1, <1>5, SumType, Zenon
<1>7. c \in Word /\ add_bytes(0, H) = checksum_add(a, c)
  <2> HIDE DEF c
  <2>1. Z \in Seq(Byte)
    BY <1>1
  <2> QED
    BY <1>3, <1>5, <2>1, SumWritten, SMT
<1>8. e \in Word /\ add_bytes(0, G) = checksum_add(a, e)
  <2> HIDE DEF e
  <2> QED
    BY <1>1, <1>4, <1>5, SumWritten, SMTT(30)
<1> HIDE DEF a
<1>9. a + c = 65535
  <2>1. checksum_add(a, c) = IF a + c < 65536 THEN a + c ELSE a + c - 65535
    BY <1>6, <1>7, AddIs
  <2>2. checksum_add(a, c) = 65535
    BY <1>7 DEF Sealed
  <2>3. a \in Nat /\ a <= 65535
    BY <1>6 DEF Word
  <2> QED
    BY <2>1, <2>2, <2>3, SMT
<1>10. checksum_add(a, e) = IF a + e < 65536 THEN a + e ELSE a + e - 65535
  BY <1>6, <1>8, AddIs
<1>11. a \in Nat
  BY <1>6 DEF Word
<1> QED
  BY <1>8, <1>9, <1>10, <1>11, SMT

\* The buffer B, the first k words of four bytes of it of this sum, and the rest.
Split(k, B, a, b) ==
  /\ k \in 1 .. 10 /\ B \in Seq(Byte) /\ a \in Seq(Byte) /\ b \in Seq(Byte)
  /\ Len(a) = 4 * k /\ Len(B) = 4 * k + Len(b) /\ Occurs(B, 0, a) /\ Occurs(B, Len(a), b)
  /\ add_bytes(0, a) = 65535 - 256 * k

\* Adding to nothing.
LEMMA AddZero ==
  ASSUME NEW s \in Word
  PROVE  checksum_add(0, s) = s
<1>1. checksum_add(0, s) = IF 0 + s < 65536 THEN 0 + s ELSE 0 + s - 65535
  BY AddIs, SmallWords
<1>2. s \in Nat /\ s <= 65535
  BY DEF Word
<1> QED
  BY <1>1, <1>2, SMT

\* The sum of both parts.
LEMMA SplitSum ==
  ASSUME NEW k, NEW B, NEW a, NEW b, Split(k, B, a, b), NEW s \in Word
  PROVE  /\ add_bytes(0, a) \in Word /\ add_bytes(0, b) \in Word
         /\ add_bytes(s, B) = checksum_add(add_bytes(0, b), checksum_add(add_bytes(0, a), s))
         /\ add_bytes(s, b) = checksum_add(add_bytes(0, b), s)
<1>1. /\ B \in Seq(Byte) /\ a \in Seq(Byte) /\ b \in Seq(Byte) /\ k \in 1 .. 10 /\ Len(a) = 4 * k
      /\ Len(B) = 4 * k + Len(b) /\ Occurs(B, 0, a) /\ Occurs(B, Len(a), b)
  BY DEF Split
<1>2. 0 \in Word
  BY SmallWords
<1>3. Len(a) % 2 = 0 /\ Len(B) = Len(a) + Len(b)
  <2>1. (4 * k) % 2 = 0
    BY <1>1
  <2> QED
    BY <1>1, <2>1
<1>4. add_bytes(s, B) = add_bytes(add_bytes(s, a), b)
  BY <1>1, <1>3, SumConcat, Zenon
<1>5. \A t \in Word : \A d \in Seq(Byte) : add_bytes(t, d) = checksum_add(add_bytes(0, d), t)
  <2> SUFFICES ASSUME NEW t \in Word, NEW d \in Seq(Byte)
               PROVE  add_bytes(t, d) = checksum_add(add_bytes(0, d), t)
    OBVIOUS
  <2>1. add_bytes(checksum_add(0, t), d) = checksum_add(add_bytes(0, d), t)
    BY <1>2, SumShift, Zenon
  <2> QED
    BY <2>1, AddZero, Zenon
<1>6. add_bytes(0, a) \in Word /\ add_bytes(0, b) \in Word
  BY <1>1, <1>2, SumType, Zenon
<1>7. add_bytes(s, a) = checksum_add(add_bytes(0, a), s) /\ checksum_add(add_bytes(0, a), s) \in Word
  <2>1. checksum_add(add_bytes(0, a), s) \in Word
    BY <1>6, AddIs
  <2> QED
    BY <1>1, <1>5, <2>1, Zenon
<1> QED
  BY <1>1, <1>4, <1>5, <1>6, <1>7, Zenon

\* The rest of an echo message has another sum.
LEMMA SplitIcmp ==
  ASSUME NEW k, NEW B, NEW a, NEW b, Split(k, B, a, b), Sealed(0, B)
  PROVE  ~Sealed(0, b)
<1> DEFINE x == add_bytes(0, a)
           y == add_bytes(0, b)
<1>1. 0 \in Word
  BY SmallWords
<1>2. x \in Word /\ y \in Word /\ add_bytes(0, B) = checksum_add(y, checksum_add(x, 0))
  BY <1>1, SplitSum, SMT
<1>3. x = 65535 - 256 * k /\ k \in 1 .. 10
  BY DEF Split
<1> HIDE DEF x, y
<1>4. x \in Nat /\ x < 65535 /\ x > 0
  BY <1>3
<1>5. checksum_add(x, 0) = x
  <2>1. checksum_add(x, 0) = IF x + 0 < 65536 THEN x + 0 ELSE x + 0 - 65535
    BY <1>1, <1>2, AddIs
  <2> QED
    BY <1>4, <2>1, SMT
<1>6. checksum_add(y, x) = IF y + x < 65536 THEN y + x ELSE y + x - 65535
  BY <1>2, AddIs
<1>7. checksum_add(y, x) = 65535
  BY <1>2, <1>5 DEF Sealed
<1>8. y # 65535
  <2>1. y \in Nat
    BY <1>2 DEF Word
  <2> QED
    BY <1>4, <1>6, <1>7, <2>1, SMT
<1> QED
  BY <1>8 DEF Sealed, y

\* The rest of a segment too, since its length went into the sum.
LEMMA SplitTcp ==
  ASSUME NEW k, NEW B, NEW a, NEW b, Split(k, B, a, b), NEW from, NEW to, NEW pr \in Word,
         IsIp(from), IsIp(to), Len(B) \in Word,
         Sealed(pseudo_header_sum(from, to, pr, Len(B)), B)
  PROVE  /\ Len(b) \in Word /\ pseudo_header_sum(from, to, pr, Len(b)) \in Word
         /\ ~Sealed(pseudo_header_sum(from, to, pr, Len(b)), b)
<1> DEFINE x == add_bytes(0, a)
           y == add_bytes(0, b)
           q == PseudoBase(from, to, pr)
           n == Len(B)
           r == Len(b)
           s == pseudo_header_sum(from, to, pr, n)
           t == pseudo_header_sum(from, to, pr, r)
<1>1. /\ x = 65535 - 256 * k /\ k \in 1 .. 10 /\ n = 4 * k + r /\ r \in Nat
  BY DEF Split
<1>2. n \in Nat /\ n <= 65535
  BY DEF Word
<1>3. r \in Word
  <2> HIDE DEF n, r
  <2> QED
    BY <1>1, <1>2 DEF Word
<1>4. q \in Word /\ s = checksum_add(q, n) /\ s \in Word
  BY PseudoIs, Zenon
<1>5. t = checksum_add(q, r) /\ t \in Word
  BY <1>3, PseudoIs, Zenon
<1>6. x \in Word /\ y \in Word /\ add_bytes(s, B) = checksum_add(y, checksum_add(x, s))
  BY <1>4, SplitSum, SMT
<1>7. add_bytes(t, b) = checksum_add(y, t)
  BY <1>5, SplitSum, SMT
<1>8. checksum_add(y, checksum_add(x, s)) = 65535
  BY <1>6 DEF Sealed
<1> HIDE DEF x, y, q, n, r, s, t
<1>9. checksum_add(y, t) # 65535
  <2> DEFINE v == checksum_add(x, s)
  <2>1. v \in Word /\ v = IF x + s < 65536 THEN x + s ELSE x + s - 65535
    BY <1>4, <1>6, AddIs
  <2>2. /\ s = IF q + n < 65536 THEN q + n ELSE q + n - 65535
        /\ t = IF q + r < 65536 THEN q + r ELSE q + r - 65535
    <3>1. n \in Word
      BY DEF n
    <3> QED
      BY <1>3, <1>4, <1>5, <3>1, AddIs
  <2> HIDE DEF v
  <2>3. /\ checksum_add(y, v) = IF y + v < 65536 THEN y + v ELSE y + v - 65535
        /\ checksum_add(y, t) = IF y + t < 65536 THEN y + t ELSE y + t - 65535
    BY <1>5, <1>6, <2>1, AddIs
  <2>4. /\ q \in Nat /\ q <= 65535 /\ y \in Nat /\ y <= 65535 /\ v \in Nat /\ v <= 65535
        /\ t \in Nat /\ t <= 65535 /\ s \in Nat /\ s <= 65535
    BY <1>4, <1>5, <1>6, <2>1 DEF Word
  <2>5. checksum_add(y, v) = 65535
    BY <1>8 DEF v
  <2>6. v = 65535 - y \/ (v = 65535 /\ y = 65535)
    BY <2>3, <2>4, <2>5, SMT
  <2>7. ASSUME checksum_add(y, t) = 65535 PROVE t = 65535 - y \/ (t = 65535 /\ y = 65535)
    BY <2>3, <2>4, <2>7, SMT
  <2>8. ASSUME checksum_add(y, t) = 65535 PROVE Alike(v, t)
    BY <2>6, <2>7, <2>8, <2>4, SMT DEF Alike
  <2>9. ~Alike(v, t)
    <3>1. s = q + n \/ s = q + n - 65535
      BY <2>2, SMT
    <3>2. t = q + r \/ t = q + r - 65535
      BY <2>2, SMT
    <3>3. v = x + s \/ v = x + s - 65535
      BY <2>1, SMT
    <3>4. /\ k \in Nat /\ k <= 10 /\ k >= 1 /\ x = 65535 - 256 * k /\ n = 4 * k + r
      BY <1>1
    <3> QED
      BY <1>1, <2>4, <3>1, <3>2, <3>3, <3>4, SMT DEF Alike
  <2> QED
    BY <2>8, <2>9
<1> QED
  BY <1>3, <1>5, <1>7, <1>9 DEF Sealed, r, t

\* The first bytes of a buffer.
LEMMA HeadIs ==
  ASSUME NEW d \in Seq(Byte), NEW n \in Nat, n <= Len(d)
  PROVE  /\ Slice(d, 0, n) \in Seq(Byte) /\ Len(Slice(d, 0, n)) = n
         /\ \A j \in 1 .. n : Slice(d, 0, n)[j] = d[j]
         /\ Occurs(d, 0, Slice(d, 0, n))
<1> DEFINE o == 0
           t == Slice(d, o, n)
<1>1. o \in Nat /\ o + n <= Len(d) /\ \A j \in 1 .. n : o + j = j
  OBVIOUS
<1> HIDE DEF o
<1>2. t \in Seq(Byte) /\ Len(t) = n /\ Occurs(d, o, t) /\ \A j \in 1 .. n : t[j] = d[o + j]
  BY <1>1, SliceIs
<1> HIDE DEF t
<1>3. \A j \in 1 .. n : t[j] = d[j]
  BY <1>1, <1>2
<1> QED
  BY <1>2, <1>3 DEF o, t

\* A packet whose header length was changed: if it can still be parsed, then with the first
\* words of its body taken for options.
LEMMA SplitHolds ==
  ASSUME NEW B \in Seq(Byte), NEW H \in Seq(Byte), Len(H) = 20, H[1] = 69, H[2] = 0,
         read_u16_be(H, 2) = 20 + Len(B), Sealed(0, H), NEW G \in Seq(Byte), ChangedAt(H, G, 1),
         NEW Q \in Seq(Byte), Occurs(Q, 0, G), Occurs(Q, 20, B), Fine(Q)
  PROVE  \E k, a, b : Split(k, B, a, b) /\ InnerOf(Q) = b
<1> DEFINE k == (Q[1] % 16) - 5
           h == HeaderSize(Q)
           n == PacketSize(Q)
           N == Len(B)
           S == Slice(Q, 0, h)
           a == Slice(B, 0, 4 * k)
           b == Slice(B, 4 * k, N - 4 * k)
<1>1. Len(G) = 20 /\ G[1] # 69 /\ \A j \in 1 .. 20 : j # 1 => G[j] = H[j]
  BY DEF ChangedAt
<1>2. /\ Len(Q) \in Nat /\ N \in Nat /\ 20 + N <= Len(Q)
      /\ \A j \in 1 .. 20 : Q[0 + j] = G[j]
      /\ \A j \in 1 .. N : Q[20 + j] = B[j]
  <2>1. Len(Q) \in Nat /\ N \in Nat
    OBVIOUS
  <2>2. 20 + N <= Len(Q) /\ \A j \in 1 .. N : Q[20 + j] = B[j]
    BY DEF Occurs
  <2>3. \A j \in 1 .. 20 : Q[0 + j] = G[j]
    BY <1>1 DEF Occurs
  <2> QED
    BY <2>1, <2>2, <2>3
<1>3. /\ 20 <= Len(Q) /\ Q[1] \div 16 = 4 /\ Q[1] % 16 >= 5 /\ h <= Len(Q) /\ h <= n /\ n <= Len(Q)
      /\ Sealed(0, S)
  BY Zenon DEF Fine
<1>4. Q[1] = G[1] /\ Q[2 + 1] = G[2 + 1] /\ Q[2 + 2] = G[2 + 2]
  BY <1>2
<1>5. Q[1] \in Nat /\ Q[1] <= 255
  <2>1. Q[1] \in Byte
    <3>1. 1 \in 1 .. Len(Q)
      <4>1. Len(Q) \in Nat /\ N \in Nat /\ 20 + N <= Len(Q)
        BY <1>2, Zenon
      <4> QED
        BY <4>1
    <3>2. \A j \in 1 .. Len(Q) : Q[j] \in Byte
      OBVIOUS
    <3> QED
      BY <3>1, <3>2, Zenon
  <2> QED
    BY <2>1, ByteIs
<1>6. k \in 1 .. 10 /\ G[1] = 69 + k /\ h = 20 + 4 * k
  <2>1. h = (Q[1] % 16) * 4
    BY DEF HeaderSize
  <2> DEFINE u == Q[1]
  <2>2. u \in Nat /\ u <= 255 /\ u \div 16 = 4 /\ u % 16 >= 5 /\ u # 69
    BY <1>1, <1>3, <1>4, <1>5
  <2> HIDE DEF u, h
  <2>3. u % 16 = u - 64 /\ u >= 70 /\ u <= 79
    BY <2>2, SMT
  <2>4. k = u - 69 /\ h = (u - 64) * 4 /\ G[1] = u
    BY <1>4, <2>1, <2>2, <2>3, SMTT(30) DEF u
  <2> HIDE DEF k
  <2> QED
    BY <2>2, <2>3, <2>4, SMT
<1>7. n = 20 + N
  <2>1. G[2 + 1] = H[2 + 1] /\ G[2 + 2] = H[2 + 2]
    BY <1>1
  <2> QED
    BY <1>4, <2>1, Zenon DEF PacketSize, read_u16_be
<1> HIDE DEF k, h, n, N
<1>8. k \in Nat /\ 4 * k \in Nat /\ 4 * k <= N /\ N - 4 * k \in Nat /\ 4 * k + (N - 4 * k) = N
  BY <1>2, <1>3, <1>6, <1>7
<1> DEFINE c == 4 * k
           r == N - 4 * k
<1>9. a \in Seq(Byte) /\ Len(a) = 4 * k /\ Occurs(B, 0, a) /\ \A j \in 1 .. (4 * k) : a[j] = B[j]
  <2>1. c \in Nat /\ c <= Len(B)
    BY <1>8 DEF N
  <2> HIDE DEF c
  <2>2. /\ Slice(B, 0, c) \in Seq(Byte) /\ Len(Slice(B, 0, c)) = c
        /\ Occurs(B, 0, Slice(B, 0, c)) /\ \A j \in 1 .. c : Slice(B, 0, c)[j] = B[j]
    BY <2>1, HeadIs
  <2> QED
    BY <2>2 DEF c
<1>10. b \in Seq(Byte) /\ Len(b) = N - 4 * k /\ \A j \in 1 .. (N - 4 * k) : b[j] = B[4 * k + j]
  <2>1. c \in Nat /\ r \in Nat /\ c + r <= Len(B)
    BY <1>8 DEF N
  <2> HIDE DEF c, r
  <2>2. /\ Slice(B, c, r) \in Seq(Byte) /\ Len(Slice(B, c, r)) = r
        /\ \A j \in 1 .. r : Slice(B, c, r)[j] = B[c + j]
    BY <2>1, SliceIs
  <2> QED
    BY <2>2 DEF c, r
<1>11. S \in Seq(Byte) /\ Len(S) = h /\ \A j \in 1 .. h : S[j] = Q[j]
  <2>1. h \in Nat /\ h <= Len(Q)
    BY <1>3, <1>6
  <2> QED
    BY <2>1, HeadIs
<1> HIDE DEF a, b, S
<1>12. Occurs(B, 0, a) /\ Occurs(B, Len(a), b)
  <2>1. Occurs(B, 0, a)
    BY <1>9
  <2>2. Occurs(B, 4 * k, b)
    BY <1>2, <1>8, <1>10 DEF Occurs, N
  <2> QED
    BY <1>9, <2>1, <2>2, Zenon
<1>13. Occurs(S, 0, G) /\ Occurs(S, Len(G), a)
  <2>1. ASSUME NEW j \in 1 .. 20 PROVE S[0 + j] = G[j]
    <3>1. 0 + j = j /\ j \in 1 .. h
      BY <1>6
    <3> QED
      BY <1>2, <1>11, <3>1
  <2>2. ASSUME NEW j \in 1 .. (4 * k) PROVE S[20 + j] = a[j]
    <3>1. 20 + j \in 1 .. h /\ j \in 1 .. N
      BY <1>2, <1>6, <1>8
    <3>2. S[20 + j] = Q[20 + j]
      BY <1>11, <3>1
    <3>3. Q[20 + j] = B[j]
      BY <1>2, <3>1
    <3>4. a[j] = B[j]
      BY <1>9, <3>1
    <3> QED
      BY <3>2, <3>3, <3>4
  <2>3. 0 + 20 <= h /\ 20 + 4 * k <= h /\ 0 \in Nat /\ 20 \in Nat
    BY <1>6, <1>8
  <2>4. Occurs(S, 0, G)
    BY <1>1, <1>11, <2>1, <2>3 DEF Occurs
  <2>5. Occurs(S, 20, a)
    BY <1>9, <1>11, <2>2, <2>3 DEF Occurs
  <2> QED
    BY <1>1, <2>4, <2>5, Zenon
<1>14. add_bytes(0, S) = add_bytes(add_bytes(0, G), a)
  <2>1. Len(G) % 2 = 0 /\ Len(S) = Len(G) + Len(a)
    BY <1>1, <1>6, <1>9, <1>11
  <2>2. 0 \in Word
    BY SmallWords
  <2> QED
    BY <1>9, <1>11, <1>13, <2>1, <2>2, SumConcat, SMTT(30)
<1>15. add_bytes(0, G) = 256 * k
  BY <1>6, LongerHeader, ZenonT(40)
<1> DEFINE x == add_bytes(0, a)
           v == 256 * k
<1>16. x \in Word /\ v \in Word /\ add_bytes(v, a) = checksum_add(x, v)
  <2>1. 0 \in Word
    BY SmallWords
  <2>2. v \in Word
    <3>1. v \in Nat /\ v <= 65535
      BY <1>6, SMT
    <3> QED
      BY <3>1 DEF Word
  <2> HIDE DEF v
  <2>3. add_bytes(checksum_add(0, v), a) = checksum_add(x, v)
    BY <1>9, <2>1, <2>2, SumShift, Zenon
  <2>4. x \in Word
    BY <1>9, <2>1, SumType, Zenon
  <2> QED
    BY <2>2, <2>3, <2>4, AddZero, Zenon
<1>17. checksum_add(x, v) = 65535
  <2> HIDE DEF x
  <2>1. add_bytes(0, S) = add_bytes(v, a)
    BY <1>14, <1>15
  <2> HIDE DEF v
  <2>2. add_bytes(0, S) = checksum_add(x, v)
    BY <1>16, <2>1, Zenon
  <2> QED
    BY <1>3, <2>2, SMT DEF Sealed, S
<1>18. x = 65535 - 256 * k
  <2>1. checksum_add(x, v) = IF x + v < 65536 THEN x + v ELSE x + v - 65535
    BY <1>16, AddIs
  <2>2. x \in Nat /\ x <= 65535
    BY <1>16 DEF Word
  <2> HIDE DEF x
  <2> QED
    BY <1>6, <1>17, <2>1, <2>2, SMT
<1>19. Split(k, B, a, b)
  <2>1. Len(B) = 4 * k + Len(b)
    BY <1>2, <1>8, <1>10 DEF N
  <2> QED
    BY <1>6, <1>9, <1>10, <1>12, <1>18, <2>1 DEF Split
<1>20. InnerOf(Q) = b
  <2>1. h \in Nat /\ n - h = Len(b) /\ h + Len(b) = 20 + N
    BY <1>2, <1>6, <1>7, <1>8, <1>10
  <2>2. ASSUME NEW j \in 1 .. Len(b) PROVE Q[h + j] = b[j]
    <3>1. 4 * k + j \in 1 .. N /\ h + j = 20 + (4 * k + j) /\ j \in 1 .. (N - 4 * k)
      BY <1>2, <1>6, <1>8, <1>10
    <3>2. Q[20 + (4 * k + j)] = B[4 * k + j]
      BY <1>2, <3>1
    <3>3. b[j] = B[4 * k + j]
      BY <1>10, <3>1
    <3> QED
      BY <3>1, <3>2, <3>3
  <2>3. Occurs(Q, h, b)
    BY <1>2, <2>1, <2>2 DEF Occurs
  <2>4. Slice(Q, h, Len(b)) = b
    BY <1>10, <2>3, SliceOf, Zenon
  <2> QED
    BY <2>1, <2>4, Zenon DEF InnerOf, h, n
<1> QED
  BY <1>19, <1>20, Zenon

\* A changed first byte of the IPv4 header: another version or a header too short is refused, a
\* longer one is found by the sum of what is left of the body.
LEMMA DamageLength ==
  ASSUME NEW m \in Messages, m.kind \in {"tcp", "icmp"}, NEW l \in Listener, NEW E, NEW H, NEW B,
         Within(E, H, B), Sound(H, B, m), NEW D \in Seq(Byte), ChangedAt(E, D, 15)
  PROVE  Harmless(l, D, m)
<1> DEFINE p == ProtocolOf(m.kind)
           Q == From(D, 14)
<1>1. /\ E \in Seq(Byte) /\ read_u16_be(E, 12) = ETHERNET_TYPE_IPV4
      /\ Occurs(E, 14, H) /\ Occurs(E, 34, B)
  BY DEF Within
<1>2. /\ Header(H, m.from, m.to, p, Len(B)) /\ Sealed(0, H) /\ BodyAt(B, m) /\ B \in Seq(Byte)
  BY Zenon DEF Sound, BodyAt
<1>3. /\ H \in Seq(Byte) /\ Len(H) = 20 /\ H[1] = 69 /\ H[2] = 0
      /\ read_u16_be(H, 2) = 20 + Len(B) /\ H[10] = p
      /\ Occurs(H, 12, m.from) /\ Occurs(H, 16, m.to)
  BY <1>2, Zenon DEF Header
<1>4. /\ Len(D) = Len(E) /\ Len(E) \in Nat /\ Len(B) \in Nat
      /\ \A j \in 1 .. Len(E) : j # 15 => D[j] = E[j]
  BY <1>1, <1>2 DEF ChangedAt
<1>5. m.kind # "arp" /\ m.kind # "udp"
  OBVIOUS
<1>6. IsIp(m.from) /\ IsIp(m.to)
  BY <1>5, BodyIs, Zenon
<1>7. /\ m.from \in Seq(Byte) /\ Len(m.from) = 4 /\ m.to \in Seq(Byte) /\ Len(m.to) = 4
  BY <1>6 DEF IsIp, ARP_PROTOCOL_ADDR_LEN
<1>8. Occurs(D, 34, B)
  <2>1. Outside(15, 34, Len(B)) /\ 34 \in Nat
    BY DEF Outside
  <2>2. \A x \in Seq(Byte) : \A o \in Nat :
          Occurs(E, o, x) /\ Outside(15, o, Len(x)) => Occurs(D, o, x)
    BY <1>1, PartStays, Zenon
  <2> QED
    BY <1>1, <1>2, <2>1, <2>2, Zenon
<1>9. PICK G \in Seq(Byte) : Occurs(D, 14, G) /\ ChangedAt(H, G, 1)
  <2>1. ~Outside(15, 14, Len(H)) /\ 14 \in Nat
    BY <1>3 DEF Outside
  <2>2. \E y \in Seq(Byte) : Occurs(D, 14, y) /\ ChangedAt(H, y, 15 - 14)
    <3>1. \A o \in Nat : \A x \in Seq(Byte) : Occurs(E, o, x) /\ ~Outside(15, o, Len(x)) =>
            \E y \in Seq(Byte) : Occurs(D, o, y) /\ ChangedAt(x, y, 15 - o)
      BY <1>1, PartChanged, Zenon
    <3> QED
      BY <1>1, <1>3, <2>1, <3>1, Zenon
  <2>3. 15 - 14 = 1
    OBVIOUS
  <2> QED
    BY <2>2, <2>3, Zenon
<1>10. Len(G) = 20 /\ \A j \in 2 .. 20 : G[j] = H[j]
  BY <1>3, <1>9 DEF ChangedAt
<1>11. /\ Q \in Seq(Byte) /\ Occurs(Q, 0, G) /\ Occurs(Q, 20, B)
  <2>1. B \in Seq(Byte) /\ Len(G) = 20
    BY <1>2, <1>10
  <2> QED
    BY <1>8, <1>9, <2>1, WithinPayload, Zenon
<1> HIDE DEF p, Q
<1>12. Q[10] = p /\ Slice(Q, 12, 4) = m.from /\ Slice(Q, 16, 4) = m.to
  <2>1. Occurs(Q, 12, m.from) /\ Occurs(Q, 16, m.to)
    <3>1. Occurs(G, 12, m.from)
      <4>1. \A j \in 1 .. 4 : H[12 + j] = m.from[j]
        BY <1>3, <1>7 DEF Occurs
      <4>2. \A j \in 1 .. 4 : 12 + j \in 2 .. 20
        OBVIOUS
      <4>3. \A j \in 1 .. 4 : G[12 + j] = m.from[j]
        BY <1>10, <4>1, <4>2, Zenon
      <4> QED
        BY <1>7, <1>10, <4>3, SMTT(30) DEF Occurs
    <3>2. Occurs(G, 16, m.to)
      <4>1. \A j \in 1 .. 4 : H[16 + j] = m.to[j]
        BY <1>3, <1>7 DEF Occurs
      <4>2. \A j \in 1 .. 4 : 16 + j \in 2 .. 20
        OBVIOUS
      <4>3. \A j \in 1 .. 4 : G[16 + j] = m.to[j]
        BY <1>10, <4>1, <4>2, Zenon
      <4> QED
        BY <1>7, <1>10, <4>3, SMTT(30) DEF Occurs
    <3>3. Occurs(Q, 12, m.from)
      BY <1>7, <1>11, <3>1, HeadIn
    <3>4. Occurs(Q, 16, m.to)
      BY <1>7, <1>11, <3>2, HeadIn
    <3> QED
      BY <3>3, <3>4
  <2>2. Slice(Q, 12, Len(m.from)) = m.from
    BY <1>7, <1>11, <2>1, SliceOf, Zenon
  <2>3. Slice(Q, 16, Len(m.to)) = m.to
    BY <1>7, <1>11, <2>1, SliceOf, Zenon
  <2>4. Q[10] = p
    <3>1. Q[0 + 10] = G[10]
      BY <1>10, <1>11 DEF Occurs
    <3>2. G[10] = H[10]
      BY <1>10
    <3> QED
      BY <1>3, <3>1, <3>2
  <2> QED
    BY <1>7, <2>2, <2>3, <2>4, Zenon
<1>13. ASSUME NEW pr, Ipv4Of(D, pr).rc = 0
       PROVE  /\ pr = p /\ m.from = Peer /\ m.to = Self
              /\ Ipv4Of(D, pr).source_ip = Peer /\ Ipv4Of(D, pr).destination_ip = Self
              /\ \E k, a, b : Split(k, B, a, b) /\ Ipv4Of(D, pr).payload = b
  <2>1. InFrame(D, ETHERNET_TYPE_IPV4) /\ Good(Q, pr)
    BY <1>13, ReceivedIs, Zenon DEF Ipv4Of, Q
  <2>2. /\ Ipv4Of(D, pr).source_ip = Peer /\ Ipv4Of(D, pr).destination_ip = Self
        /\ Ipv4Of(D, pr).payload = InnerOf(Q)
    BY <1>13, ReceivedIs, Zenon DEF Ipv4Of, Q
  <2>3. Fine(Q) /\ Q[10] = pr /\ Slice(Q, 12, 4) = Peer /\ Slice(Q, 16, 4) = Self
    BY <2>1, Zenon DEF Good
  <2>4. \E k, a, b : Split(k, B, a, b) /\ InnerOf(Q) = b
    BY <1>2, <1>3, <1>9, <1>11, <2>3, SplitHolds, ZenonT(40)
  <2> QED
    BY <1>12, <2>2, <2>3, <2>4, Zenon
<1>14. /\ p = IPV4_PROTOCOL_TCP <=> m.kind = "tcp"
       /\ p = IPV4_PROTOCOL_UDP <=> m.kind = "udp"
       /\ p = IPV4_PROTOCOL_ICMP <=> m.kind = "icmp"
  BY <1>5, Protocols, Zenon DEF p
<1>15. ~TcpOk(D)
  <2> SUFFICES ASSUME TcpOk(D) PROVE FALSE
    OBVIOUS
  <2>1. /\ Ipv4Of(D, IPV4_PROTOCOL_TCP).rc = 0
        /\ tcp_checksum_ipv4_valid(Ipv4Of(D, IPV4_PROTOCOL_TCP).source_ip,
             Ipv4Of(D, IPV4_PROTOCOL_TCP).destination_ip, Ipv4Of(D, IPV4_PROTOCOL_TCP).payload)
    BY Zenon DEF TcpOk
  <2>2. PICK k, a, b : Split(k, B, a, b) /\ Ipv4Of(D, IPV4_PROTOCOL_TCP).payload = b
    BY <1>13, <2>1, Zenon
  <2>3. m.kind = "tcp" /\ tcp_checksum_ipv4_valid(m.from, m.to, b)
    BY <1>13, <1>14, <2>1, <2>2, Zenon
  <2>4. Len(B) \in Word /\ Sealed(pseudo_header_sum(m.from, m.to, TCP_PROTOCOL, Len(B)), B)
    BY <1>2, <2>3, Zenon DEF BodyAt
  <2>5. TCP_PROTOCOL \in Word
    BY SmallWords DEF TCP_PROTOCOL
  <2> DEFINE s == pseudo_header_sum(m.from, m.to, TCP_PROTOCOL, Len(b))
  <2>6. s \in Word /\ ~Sealed(s, b)
    BY <1>6, <2>2, <2>4, <2>5, SplitTcp, SMT
  <2>7. checksum_finish(add_bytes(s, b)) = 0
    <3>1. checksum_finish(tcp_checksum_sum_ipv4(m.from, m.to, b)) = 0
      BY <2>3, SMT DEF tcp_checksum_ipv4_valid
    <3> QED
      BY <3>1, Zenon DEF tcp_checksum_sum_ipv4
  <2>8. b \in Seq(Byte)
    BY <2>2, SMT DEF Split
  <2> HIDE DEF s
  <2> QED
    BY <2>6, <2>7, <2>8, SealSeen, Zenon
<1>16. ~UdpOk(D)
  BY <1>5, <1>13, <1>14, Zenon DEF UdpOk
<1>17. ~IcmpOk(D)
  <2> SUFFICES ASSUME IcmpOk(D) PROVE FALSE
    OBVIOUS
  <2>1. /\ Ipv4Of(D, IPV4_PROTOCOL_ICMP).rc = 0
        /\ icmp_parse(Ipv4Of(D, IPV4_PROTOCOL_ICMP).payload).rc = 0
    BY Zenon DEF IcmpOk, IcmpOf
  <2>2. PICK k, a, b : Split(k, B, a, b) /\ Ipv4Of(D, IPV4_PROTOCOL_ICMP).payload = b
    BY <1>13, <2>1, Zenon
  <2>3. m.kind = "icmp" /\ icmp_parse(b).rc = 0
    BY <1>13, <1>14, <2>1, <2>2, Zenon
  <2>4. Sealed(0, B)
    BY <1>2, <2>3, Zenon DEF BodyAt
  <2>5. b \in Seq(Byte)
    BY <2>2, SMT DEF Split
  <2>6. Sealed(0, b)
    BY <2>3, <2>5, IcmpSealed, Zenon
  <2> QED
    BY <2>2, <2>4, <2>6, SplitIcmp, Zenon
<1>18. Accept("arp", D).rc # 0
  <2>1. read_u16_be(D, 12) = ETHERNET_TYPE_IPV4
    <3>1. Len(E) >= 34
      <4>1. 34 + Len(B) <= Len(E)
        BY <1>1 DEF Occurs
      <4> QED
        BY <1>4, <4>1
    <3>2. D[12 + 1] = E[12 + 1] /\ D[12 + 2] = E[12 + 2]
      BY <1>4, <3>1
    <3> QED
      BY <1>1, <3>2, Zenon DEF read_u16_be
  <2>2. ETHERNET_TYPE_IPV4 # ETHERNET_TYPE_ARP
    BY DEF ETHERNET_TYPE_IPV4, ETHERNET_TYPE_ARP
  <2>3. ~InFrame(D, ETHERNET_TYPE_ARP)
    BY <2>1, <2>2, Zenon DEF InFrame
  <2> QED
    BY <2>3, NotArp, Zenon
<1>19. Accept("tcp", D).rc # 0 /\ Accept("udp", D).rc # 0 /\ Accept("icmp", D).rc # 0
  BY <1>15, <1>16, <1>17, TakenIs, Zenon
<1>20. Accept(l, D).rc # 0
  BY <1>18, <1>19 DEF Listener
<1> QED
  BY <1>20, Zenon DEF Harmless

\* A changed byte anywhere.
LEMMA DamageHarmless ==
  ASSUME NEW m \in Messages, m.kind # "arp", NEW l \in Listener, NEW E, NEW H, NEW B,
         Within(E, H, B), Sound(H, B, m), NEW D \in Seq(Byte), NEW i, ChangedAt(E, D, i),
         m.kind = "udp" => i # 15
  PROVE  Harmless(l, D, m)
<1>1. i \in Nat /\ Len(B) \in Nat
  <2>1. E \in Seq(Byte) /\ B \in Seq(Byte)
    BY Zenon DEF Within, Sound, BodyAt
  <2>2. i \in 1 .. Len(E)
    BY DEF ChangedAt
  <2> QED
    BY <2>1, <2>2
<1>2. \/ i <= 12 \/ i > 34 + Len(B)
      \/ i = 13 \/ i = 14
      \/ i = 15
      \/ 16 <= i /\ i <= 34
      \/ 35 <= i /\ i <= 34 + Len(B)
  BY <1>1
<1>3. CASE i <= 12 \/ i > 34 + Len(B)
  BY <1>3, DamageOutside
<1>4. CASE i = 13 \/ i = 14
  BY <1>4, DamageType
<1>5. CASE i = 15
  <2>1. m.kind \in {"tcp", "icmp"}
    BY <1>5, BodyIs
  <2>2. ChangedAt(E, D, 15)
    BY <1>5
  <2> QED
    BY <2>1, <2>2, DamageLength
<1>6. CASE 16 <= i /\ i <= 34
  BY <1>6, DamageHeader
<1>7. CASE 35 <= i /\ i <= 34 + Len(B)
  BY <1>7, DamageBody
<1> QED
  BY <1>2, <1>3, <1>4, <1>5, <1>6, <1>7

(***************************************************************************)
(* The invariant.                                                          *)
(***************************************************************************)
\* The frame of a message, and perhaps padding behind it.
Whole(E, m) ==
  /\ E \in Seq(Byte) /\ Len(E) <= 14 + EthernetMaxPayload /\ Occurs(E, 0, FrameOf(m))

\* What the network has is the message's frame, as it is or cut or with a changed byte; what a
\* loop has accepted is what it makes of that.
FrameInv ==
  /\ sent \in Messages /\ listener \in Listener
  /\ phase \in {"idle", "unsent", "wire", "received"}
  /\ altered \in {"intact", "padded", "cut", "damaged"}
  /\ phase = "idle" => altered = "intact"
  /\ phase = "unsent" => FrameOf(sent) = <<>>
  /\ phase \in {"wire", "received"} =>
       /\ FrameOf(sent) # <<>> /\ frame \in Seq(Byte) /\ Len(frame) <= 14 + EthernetMaxPayload
       /\ altered \in {"intact", "padded"} => Whole(frame, sent)
       /\ altered = "cut" => \E E : Whole(E, sent) /\ Occurs(E, 0, frame)
       /\ altered = "damaged" => \E E, i : Whole(E, sent) /\ ChangedAt(E, frame, i)
  /\ phase = "received" => accepted = Accept(listener, frame)

\* The frame of a message is whole.
LEMMA FrameWhole ==
  ASSUME NEW m \in Messages, FrameOf(m) # <<>>
  PROVE  Whole(FrameOf(m), m)
<1>1. EthernetMaxPayload \in Nat
  BY EthernetAssumption
<1> DEFINE F == FrameOf(m)
<1>2. F \in Seq(Byte) /\ Len(F) <= 14 + EthernetMaxPayload
  <2>1. CASE m.kind = "arp"
    <3>1. PICK A : ArpAt(A, m.packet) /\ Frames(F, ETHERNET_TYPE_ARP, A) /\ 28 <= EthernetMaxPayload
      BY <2>1, ArpFrame, Zenon
    <3>2. Len(A) = 28 /\ F \in Seq(Byte) /\ Len(F) = 14 + Len(A)
      BY <3>1, Zenon DEF ArpAt, Frames
    <3> QED
      BY <1>1, <3>1, <3>2
  <2>2. CASE m.kind # "arp"
    <3>1. PICK H, B : Packed(F, H, B, m)
      BY <2>2, MessageFrame, Zenon
    <3>2. F \in Seq(Byte) /\ Len(F) = 34 + Len(B) /\ 20 + Len(B) <= EthernetMaxPayload /\ B \in Seq(Byte)
      BY <3>1, Zenon DEF Packed, Carries, BodyAt
    <3> HIDE DEF F
    <3> QED
      BY <1>1, <3>2
  <2> QED
    BY <2>1, <2>2
<1>3. Occurs(F, 0, F)
  BY <1>2, OccursSelf, Zenon
<1> QED
  BY <1>2, <1>3, Zenon DEF Whole

\* A whole frame of a message over IPv4 holds its packet.
LEMMA WholeWithin ==
  ASSUME NEW m \in Messages, m.kind # "arp", FrameOf(m) # <<>>, NEW E, Whole(E, m)
  PROVE  \E H, B : Within(E, H, B) /\ Sound(H, B, m)
<1> DEFINE F == FrameOf(m)
<1>1. PICK H, B : Packed(F, H, B, m)
  BY MessageFrame, Zenon
<1>2. /\ Header(H, m.from, m.to, ProtocolOf(m.kind), Len(B)) /\ Sealed(0, H)
      /\ Carries(F, H, B) /\ BodyAt(B, m) /\ 20 + Len(B) <= EthernetMaxPayload
  BY <1>1, Zenon DEF Packed
<1>3. /\ F \in Seq(Byte) /\ Len(F) = 34 + Len(B) /\ read_u16_be(F, 12) = ETHERNET_TYPE_IPV4
      /\ Occurs(F, 14, H) /\ Occurs(F, 34, B) /\ H \in Seq(Byte) /\ B \in Seq(Byte)
  BY <1>2, Zenon DEF Carries, Header, BodyAt
<1>4. E \in Seq(Byte) /\ Len(E) <= 14 + EthernetMaxPayload /\ Occurs(E, 0, F)
  BY Zenon DEF Whole
<1> HIDE DEF F
<1>5. Occurs(E, 14, H) /\ Occurs(E, 34, B)
  <2>1. Occurs(E, 14, H)
    BY <1>3, <1>4, HeadIn
  <2>2. Occurs(E, 34, B)
    BY <1>3, <1>4, HeadIn
  <2> QED
    BY <2>1, <2>2
<1>6. read_u16_be(E, 12) = ETHERNET_TYPE_IPV4
  <2>1. \A j \in 1 .. Len(F) : E[0 + j] = F[j]
    BY <1>4 DEF Occurs
  <2>2. Len(F) \in Nat /\ Len(F) >= 34
    BY <1>3
  <2>3. E[12 + 1] = F[12 + 1] /\ E[12 + 2] = F[12 + 2]
    BY <2>1, <2>2
  <2> QED
    BY <1>3, <2>3, Zenon DEF read_u16_be
<1>7. Len(E) - 14 <= EthernetMaxPayload
  <2>1. Len(E) \in Nat /\ EthernetMaxPayload \in Nat
    BY <1>4, EthernetAssumption
  <2> QED
    BY <1>4, <2>1
<1>8. Within(E, H, B)
  BY <1>4, <1>5, <1>6, <1>7, Zenon DEF Within
<1>9. Sound(H, B, m)
  BY <1>2, Zenon DEF Sound
<1> QED
  BY <1>8, <1>9, Zenon

\* A whole frame of an ARP packet holds that.
LEMMA WholeArp ==
  ASSUME NEW m \in Messages, m.kind = "arp", FrameOf(m) # <<>>, NEW E, Whole(E, m)
  PROVE  /\ IsArp(m.packet) /\ m.packet.sender_ip = m.from /\ m.packet.target_ip = m.to
         /\ \E A : HoldsArp(E, A) /\ ArpAt(A, m.packet)
<1> DEFINE F == FrameOf(m)
<1>1. /\ IsArp(m.packet) /\ m.packet.sender_ip = m.from /\ m.packet.target_ip = m.to
      /\ \E A : /\ ArpAt(A, m.packet) /\ Frames(F, ETHERNET_TYPE_ARP, A)
                /\ 28 <= EthernetMaxPayload
  BY ArpFrame, Zenon
<1>2. PICK A : ArpAt(A, m.packet) /\ Frames(F, ETHERNET_TYPE_ARP, A)
  BY <1>1, Zenon
<1>3. /\ F \in Seq(Byte) /\ Len(F) = 14 + Len(A) /\ read_u16_be(F, 12) = ETHERNET_TYPE_ARP
      /\ Occurs(F, 14, A) /\ A \in Seq(Byte) /\ Len(A) = 28
  BY <1>2, Zenon DEF Frames, ArpAt
<1>4. E \in Seq(Byte) /\ Len(E) <= 14 + EthernetMaxPayload /\ Occurs(E, 0, F)
  BY Zenon DEF Whole
<1> HIDE DEF F
<1>5. Occurs(E, 14, A)
  BY <1>3, <1>4, HeadIn
<1>6. read_u16_be(E, 12) = ETHERNET_TYPE_ARP
  <2>1. \A j \in 1 .. Len(F) : E[0 + j] = F[j]
    BY <1>4 DEF Occurs
  <2>2. Len(F) = 42
    BY <1>3
  <2>3. E[12 + 1] = F[12 + 1] /\ E[12 + 2] = F[12 + 2]
    BY <2>1, <2>2
  <2> QED
    BY <1>3, <2>3, Zenon DEF read_u16_be
<1>7. Len(E) - 14 <= EthernetMaxPayload
  <2>1. Len(E) \in Nat /\ EthernetMaxPayload \in Nat
    BY <1>4, EthernetAssumption
  <2> QED
    BY <1>4, <2>1
<1>8. HoldsArp(E, A)
  BY <1>4, <1>5, <1>6, <1>7, Zenon DEF HoldsArp
<1> QED
  BY <1>1, <1>2, <1>8, Zenon

\* The receive buffer takes any frame.
LEMMA ReceivedAll ==
  ASSUME frame \in Seq(Byte), Len(frame) <= 14 + EthernetMaxPayload
  PROVE  Received = frame
<1> DEFINE n == Len(frame)
<1>1. /\ n \in Nat /\ EthernetMaxPayload \in Nat /\ ReceiveBufferSize \in Nat
      /\ ReceiveBufferSize >= 14 + EthernetMaxPayload
  BY EthernetAssumption, FramePathAssumption DEF ETHERNET_HEADER_LEN
<1>2. (IF n < ReceiveBufferSize THEN n ELSE ReceiveBufferSize) = n
  BY <1>1
<1>3. Received = SubSeq(frame, 1, n)
  BY <1>2, Zenon DEF Received
<1>4. SubSeq(frame, 1, n) = frame
  <2>1. n \in 0 .. Len(frame)
    BY <1>1
  <2>2. /\ SubSeq(frame, 1, n) \in Seq(Byte) /\ Len(SubSeq(frame, 1, n)) = n
        /\ Occurs(frame, 0, SubSeq(frame, 1, n))
    BY <2>1, OccursPrefix
  <2> QED
    BY <2>2, OccursWhole, Zenon
<1> QED
  BY <1>3, <1>4

\* The messages wait.
LEMMA FrameInitInv == FrameInit => FrameInv
BY DEF FrameInit, FrameInv

\* A frame is sent, or none.
LEMMA SendInv ==
  ASSUME FrameInv, send_tcp_segment \/ send_dns_query \/ send_ping \/ resolve_arp
  PROVE  FrameInv'
<1>1. /\ sent \in Messages /\ listener \in Listener /\ (phase = "idle" => altered = "intact")
  BY DEF FrameInv
<1>2. /\ phase = "idle" /\ frame' = FrameOf(sent)
      /\ phase' = IF FrameOf(sent) = <<>> THEN "unsent" ELSE "wire"
      /\ UNCHANGED <<sent, altered, listener, accepted>>
  <2>1. ASSUME NEW kind, NEW F, Transmit(kind, F), sent.kind = kind => F = FrameOf(sent)
        PROVE  /\ phase = "idle" /\ frame' = FrameOf(sent)
               /\ phase' = IF FrameOf(sent) = <<>> THEN "unsent" ELSE "wire"
               /\ UNCHANGED <<sent, altered, listener, accepted>>
    BY <2>1, Zenon DEF Transmit
  <2>2. CASE send_tcp_segment
    <3> DEFINE F == ipv4_frame(sent, IPV4_PROTOCOL_TCP,
                      tcp_serialize_ipv4(sent.packet, sent.from, sent.to, EthernetMaxPayload), 18516)
    <3>1. Transmit("tcp", F)
      BY <2>2 DEF send_tcp_segment
    <3>2. sent.kind = "tcp" => F = FrameOf(sent)
      BY DEF FrameOf, BodyOf, ProtocolOf, IdentificationOf
    <3> HIDE DEF F
    <3> QED
      BY <2>1, <3>1, <3>2, Zenon
  <2>3. CASE send_dns_query
    <3> DEFINE F == ipv4_frame(sent, IPV4_PROTOCOL_UDP,
                      udp_serialize_ipv4(sent.packet, sent.from, sent.to, MaxPacketLen), 17486)
    <3>1. Transmit("udp", F)
      BY <2>3 DEF send_dns_query
    <3>2. sent.kind = "udp" => F = FrameOf(sent)
      BY DEF FrameOf, BodyOf, ProtocolOf, IdentificationOf
    <3> HIDE DEF F
    <3> QED
      BY <2>1, <3>1, <3>2, Zenon
  <2>4. CASE send_ping
    <3> DEFINE F == ipv4_frame(sent, IPV4_PROTOCOL_ICMP, icmp_serialize(sent.packet, MaxPacketLen), 4919)
    <3>1. Transmit("icmp", F)
      BY <2>4 DEF send_ping
    <3>2. sent.kind = "icmp" => F = FrameOf(sent)
      BY DEF FrameOf, BodyOf, ProtocolOf, IdentificationOf
    <3> HIDE DEF F
    <3> QED
      BY <2>1, <3>1, <3>2, Zenon
  <2>5. CASE resolve_arp
    <3> DEFINE F == ethernet_frame(Broadcast, ETHERNET_TYPE_ARP, arp_serialize(sent.packet, ARP_PACKET_LEN))
    <3>1. Transmit("arp", F)
      BY <2>5 DEF resolve_arp
    <3>2. sent.kind = "arp" => F = FrameOf(sent)
      BY DEF FrameOf, BodyOf
    <3> HIDE DEF F
    <3> QED
      BY <2>1, <3>1, <3>2, Zenon
  <2> QED
    BY <2>2, <2>3, <2>4, <2>5, Zenon
<1>3. sent' = sent /\ altered' = "intact" /\ listener' = listener
  BY <1>1, <1>2
<1>4. FrameOf(sent)' = FrameOf(sent)
  BY <1>3 DEF FrameOf, BodyOf, ipv4_frame
<1>5. CASE FrameOf(sent) = <<>>
  <2>1. phase' = "unsent"
    BY <1>2, <1>5
  <2> QED
    BY <1>1, <1>3, <1>4, <1>5, <2>1 DEF FrameInv
<1>6. CASE FrameOf(sent) # <<>>
  <2>1. phase' = "wire"
    BY <1>2, <1>6
  <2>2. Whole(FrameOf(sent), sent)
    BY <1>1, <1>6, FrameWhole
  <2>3. Whole(frame, sent)'
    BY <1>2, <1>3, <1>4, <2>2, Zenon DEF Whole
  <2>4. (frame \in Seq(Byte) /\ Len(frame) <= 14 + EthernetMaxPayload)'
    BY <2>3, Zenon DEF Whole
  <2> QED
    BY <1>1, <1>3, <1>4, <1>6, <2>1, <2>3, <2>4 DEF FrameInv
<1> QED
  BY <1>5, <1>6

\* What holds of a frame under way, and what a step of the network leaves alone.
LEMMA UnderWay ==
  ASSUME FrameInv, NEW how \in {"padded", "cut", "damaged"}, NEW bytes \in Seq(Byte),
         Alter(how, bytes), altered \in {"intact", "padded"},
         Len(bytes) <= 14 + EthernetMaxPayload,
         how = "padded" => Whole(bytes, sent),
         how = "cut" => \E E : Whole(E, sent) /\ Occurs(E, 0, bytes),
         how = "damaged" => \E E, i : Whole(E, sent) /\ ChangedAt(E, bytes, i)
  PROVE  FrameInv'
<1>1. /\ phase = "wire" /\ frame' = bytes /\ altered' = how
      /\ phase' = phase /\ sent' = sent /\ listener' = listener /\ accepted' = accepted
  BY DEF Alter
<1>2. /\ sent \in Messages /\ listener \in Listener /\ FrameOf(sent) # <<>>
  BY <1>1 DEF FrameInv
<1>3. FrameOf(sent)' = FrameOf(sent)
  BY <1>1 DEF FrameOf, BodyOf, ipv4_frame
<1>4. /\ altered' \in {"intact", "padded"} => Whole(frame, sent)'
      /\ altered' = "cut" => (\E E : Whole(E, sent) /\ Occurs(E, 0, frame))'
      /\ altered' = "damaged" => (\E E, i : Whole(E, sent) /\ ChangedAt(E, frame, i))'
  <2>1. CASE how = "padded"
    <3>1. Whole(frame, sent)'
      BY <1>1, <1>3, <2>1, Zenon DEF Whole
    <3> QED
      BY <1>1, <2>1, <3>1
  <2>2. CASE how = "cut"
    <3>1. PICK E : Whole(E, sent) /\ Occurs(E, 0, bytes)
      BY <2>2
    <3>2. Whole(E, sent)' /\ Occurs(E, 0, frame)'
      BY <1>1, <1>3, <3>1, Zenon DEF Whole
    <3> QED
      BY <1>1, <2>2, <3>2
  <2>3. CASE how = "damaged"
    <3>1. PICK E, i : Whole(E, sent) /\ ChangedAt(E, bytes, i)
      BY <2>3
    <3>2. Whole(E, sent)' /\ ChangedAt(E, frame, i)'
      BY <1>1, <1>3, <3>1, Zenon DEF Whole
    <3> QED
      BY <1>1, <2>3, <3>2
  <2> QED
    BY <2>1, <2>2, <2>3
<1> QED
  BY <1>1, <1>2, <1>3, <1>4 DEF FrameInv

\* A frame under way is whole.
LEMMA OnTheWire ==
  ASSUME FrameInv, phase = "wire", altered \in {"intact", "padded"}
  PROVE  Whole(frame, sent) /\ frame \in Seq(Byte) /\ Len(frame) <= 14 + EthernetMaxPayload
BY DEF FrameInv

\* The hardware pads.
LEMMA PadInv ==
  ASSUME FrameInv, Pad
  PROVE  FrameInv'
<1> DEFINE n == 14 + EthernetMinPayload - Len(frame)
           pad == [i \in 1 .. n |-> 170]
           bytes == frame \o pad
<1>1. /\ altered = "intact" /\ Len(frame) < 14 + EthernetMinPayload
      /\ Alter("padded", bytes) /\ phase = "wire"
  BY DEF Pad, Alter, ETHERNET_HEADER_LEN
<1>2. Whole(frame, sent) /\ frame \in Seq(Byte)
  BY <1>1, OnTheWire
<1>3. /\ EthernetMinPayload \in Nat /\ EthernetMaxPayload \in Nat
      /\ EthernetMinPayload <= EthernetMaxPayload
  BY EthernetAssumption, FramePathAssumption
<1>4. n \in Nat /\ Len(frame) + n = 14 + EthernetMinPayload
  <2>1. Len(frame) \in Nat
    BY <1>2
  <2> QED
    BY <1>1, <1>3, <2>1
<1>5. pad \in Seq(Byte) /\ Len(pad) = n
  <2>1. 170 \in Byte
    BY DEF Byte
  <2> HIDE DEF n
  <2> QED
    BY <1>4, <2>1
<1> HIDE DEF pad
<1>6. /\ bytes \in Seq(Byte) /\ Len(bytes) = Len(frame) + Len(pad)
      /\ \A x \in Seq(Byte) : \A o : Occurs(frame, o, x) => Occurs(bytes, o, x)
  BY <1>2, <1>5, Joined, Zenon
<1>7. Len(bytes) <= 14 + EthernetMaxPayload
  BY <1>3, <1>4, <1>5, <1>6
<1> HIDE DEF bytes, n
<1>8. Whole(bytes, sent)
  <2>1. sent \in Messages /\ FrameOf(sent) # <<>>
    BY <1>1 DEF FrameInv
  <2>2. FrameOf(sent) \in Seq(Byte)
    BY <2>1, FrameWhole, Zenon DEF Whole
  <2>3. Occurs(frame, 0, FrameOf(sent))
    BY <1>2, Zenon DEF Whole
  <2> QED
    BY <1>6, <1>7, <2>2, <2>3, Zenon DEF Whole
<1> QED
  BY <1>1, <1>6, <1>7, <1>8, UnderWay

\* The network changes a byte.
LEMMA DamageInv ==
  ASSUME FrameInv, Damage
  PROVE  FrameInv'
<1>1. /\ altered \in {"intact", "padded"} /\ phase = "wire"
      /\ \E i \in 1 .. Len(frame) :
           \E v \in {0} \cup {(frame[i] + d) % 256 : d \in DamageBy} :
             v # frame[i] /\ Alter("damaged", [frame EXCEPT ![i] = v])
  BY DEF Damage, Alter
<1>2. Whole(frame, sent) /\ frame \in Seq(Byte) /\ Len(frame) <= 14 + EthernetMaxPayload
  BY <1>1, OnTheWire
<1>3. PICK i \in 1 .. Len(frame) :
        \E v \in {0} \cup {(frame[i] + d) % 256 : d \in DamageBy} :
          v # frame[i] /\ Alter("damaged", [frame EXCEPT ![i] = v])
  BY <1>1
<1>4. PICK v \in {0} \cup {(frame[i] + d) % 256 : d \in DamageBy} :
        v # frame[i] /\ Alter("damaged", [frame EXCEPT ![i] = v])
  BY <1>3
<1> DEFINE bytes == [frame EXCEPT ![i] = v]
<1>5. v \in Byte
  <2>1. CASE v = 0
    BY <2>1, SmallWords
  <2>2. CASE v \in {(frame[i] + d) % 256 : d \in DamageBy}
    <3>1. PICK d \in DamageBy : v = (frame[i] + d) % 256
      BY <2>2
    <3>2. d \in 1 .. 255
      BY FramePathAssumption
    <3>3. frame[i] \in Byte
      BY <1>2
    <3>4. frame[i] \in Nat
      BY <3>3, ByteIs
    <3>5. v \in Nat /\ v <= 255
      BY <3>1, <3>2, <3>4, SMTT(30)
    <3> QED
      BY <3>5, ByteIs
  <2> QED
    BY <1>4, <2>1, <2>2
<1>6. frame \in [1 .. Len(frame) -> Byte] /\ Len(frame) \in Nat
  BY <1>2, SeqIsFunction
<1>7. /\ bytes \in [1 .. Len(frame) -> Byte] /\ bytes[i] = v
      /\ \A j \in 1 .. Len(frame) : j # i => bytes[j] = frame[j]
  BY <1>5, <1>6
<1>8. Alter("damaged", bytes) /\ v # frame[i]
  BY <1>4
<1> HIDE DEF bytes
<1>9. bytes \in Seq(Byte) /\ Len(bytes) = Len(frame)
  BY <1>6, <1>7
<1>10. ChangedAt(frame, bytes, i)
  BY <1>7, <1>8, <1>9 DEF ChangedAt
<1>11. \E E, p : Whole(E, sent) /\ ChangedAt(E, bytes, p)
  BY <1>2, <1>10
<1>12. Len(bytes) <= 14 + EthernetMaxPayload
  BY <1>2, <1>9
<1> QED
  BY <1>1, <1>8, <1>9, <1>11, <1>12, UnderWay

\* The network cuts.
LEMMA CutInv ==
  ASSUME FrameInv, Cut
  PROVE  FrameInv'
<1>1. /\ altered \in {"intact", "padded"} /\ phase = "wire"
      /\ \E n \in 1 .. (Len(frame) - 1) : Alter("cut", SubSeq(frame, 1, n))
  BY DEF Cut, Alter
<1>2. Whole(frame, sent) /\ frame \in Seq(Byte) /\ Len(frame) <= 14 + EthernetMaxPayload
  BY <1>1, OnTheWire
<1>3. PICK n \in 1 .. (Len(frame) - 1) : Alter("cut", SubSeq(frame, 1, n))
  BY <1>1
<1> DEFINE bytes == SubSeq(frame, 1, n)
<1>4. n \in 0 .. Len(frame) /\ Len(frame) \in Nat /\ EthernetMaxPayload \in Nat
  BY <1>2, EthernetAssumption
<1>5. bytes \in Seq(Byte) /\ Len(bytes) = n /\ Occurs(frame, 0, bytes)
  BY <1>2, <1>4, OccursPrefix, Zenon
<1>6. Alter("cut", bytes)
  BY <1>3
<1> HIDE DEF bytes
<1>7. Len(bytes) <= 14 + EthernetMaxPayload
  BY <1>2, <1>4, <1>5
<1>8. \E E : Whole(E, sent) /\ Occurs(E, 0, bytes)
  BY <1>2, <1>5
<1> QED
  BY <1>1, <1>5, <1>6, <1>7, <1>8, UnderWay

\* A loop receives.
LEMMA ReceiveInv ==
  ASSUME FrameInv, ReceiveTcp \/ ReceiveUdp \/ ReceiveIcmp \/ ReceiveArp
  PROVE  FrameInv'
<1>1. /\ phase = "wire" /\ phase' = "received" /\ accepted' = Accept(listener, Received)
      /\ sent' = sent /\ frame' = frame /\ altered' = altered /\ listener' = listener
  BY DEF ReceiveTcp, ReceiveUdp, ReceiveIcmp, ReceiveArp, Receive, Accept
<1>2. /\ sent \in Messages /\ listener \in Listener
      /\ altered \in {"intact", "padded", "cut", "damaged"}
      /\ FrameOf(sent) # <<>> /\ frame \in Seq(Byte) /\ Len(frame) <= 14 + EthernetMaxPayload
      /\ altered \in {"intact", "padded"} => Whole(frame, sent)
      /\ altered = "cut" => \E E : Whole(E, sent) /\ Occurs(E, 0, frame)
      /\ altered = "damaged" => \E E, i : Whole(E, sent) /\ ChangedAt(E, frame, i)
  BY <1>1 DEF FrameInv
<1>3. Received = frame
  BY <1>2, ReceivedAll
<1>4. FrameOf(sent)' = FrameOf(sent)
  BY <1>1 DEF FrameOf, BodyOf, ipv4_frame
<1>5. Accept(listener, frame)' = Accept(listener, frame)
  BY <1>1 DEF Accept, receive_tcp_segment, receive_dns_datagram, receive_echo_reply,
              receive_arp_reply, ipv4_received
<1>6. accepted' = Accept(listener, frame)'
  BY <1>1, <1>3, <1>5, Zenon
<1>7. /\ (altered \in {"intact", "padded"})' => Whole(frame, sent)'
      /\ (altered = "cut")' => (\E E : Whole(E, sent) /\ Occurs(E, 0, frame))'
      /\ (altered = "damaged")' => (\E E, i : Whole(E, sent) /\ ChangedAt(E, frame, i))'
  <2>1. ASSUME NEW E, Whole(E, sent) PROVE Whole(E, sent)'
    BY <1>4, <2>1, Zenon DEF Whole
  <2>2. ASSUME altered \in {"intact", "padded"} PROVE Whole(frame, sent)'
    BY <1>1, <1>2, <1>4, <2>2, Zenon DEF Whole
  <2>3. ASSUME altered = "cut" PROVE (\E E : Whole(E, sent) /\ Occurs(E, 0, frame))'
    BY <1>1, <1>2, <2>1, <2>3, Zenon
  <2>4. ASSUME altered = "damaged" PROVE (\E E, i : Whole(E, sent) /\ ChangedAt(E, frame, i))'
    BY <1>1, <1>2, <2>1, <2>4, Zenon
  <2> QED
    BY <1>1, <2>2, <2>3, <2>4, Zenon
<1> QED
  BY <1>1, <1>2, <1>4, <1>6, <1>7 DEF FrameInv

\* Nothing happens.
LEMMA FrameStutter ==
  ASSUME FrameInv, UNCHANGED fvars
  PROVE  FrameInv'
<1>1. /\ phase' = phase /\ sent' = sent /\ frame' = frame /\ altered' = altered
      /\ listener' = listener /\ accepted' = accepted
  BY DEF fvars
<1>2. FrameOf(sent)' = FrameOf(sent)
  BY <1>1 DEF FrameOf, BodyOf, ipv4_frame
<1>3. Accept(listener, frame)' = Accept(listener, frame)
  BY <1>1 DEF Accept, receive_tcp_segment, receive_dns_datagram, receive_echo_reply,
              receive_arp_reply, ipv4_received
<1>4. \A E : Whole(E, sent)' <=> Whole(E, sent)
  BY <1>2, Zenon DEF Whole
<1>5. Whole(frame, sent)' <=> Whole(frame, sent)
  BY <1>1, <1>2, Zenon DEF Whole
<1>6. (\E E : Whole(E, sent) /\ Occurs(E, 0, frame))' <=> (\E E : Whole(E, sent) /\ Occurs(E, 0, frame))
  BY <1>1, <1>4, Zenon
<1>7. (\E E, i : Whole(E, sent) /\ ChangedAt(E, frame, i))'
        <=> (\E E, i : Whole(E, sent) /\ ChangedAt(E, frame, i))
  BY <1>1, <1>4, Zenon
<1> QED
  BY <1>1, <1>2, <1>3, <1>5, <1>6, <1>7 DEF FrameInv

(***************************************************************************)
(* FrameInv is an invariant: at every point the network has the frame of   *)
(* the message, padded, cut or with one byte changed, and a loop has       *)
(* accepted what its receive function makes of that.                       *)
(***************************************************************************)
THEOREM FrameInvariant == FrameSpec => []FrameInv
<1>1. FrameInit => FrameInv
  BY FrameInitInv
<1>2. FrameInv /\ [FrameNext]_fvars => FrameInv'
  <2> SUFFICES ASSUME FrameInv, [FrameNext]_fvars PROVE FrameInv'
    OBVIOUS
  <2>1. CASE send_tcp_segment \/ send_dns_query \/ send_ping \/ resolve_arp
    BY <2>1, SendInv
  <2>2. CASE Pad
    BY <2>2, PadInv
  <2>3. CASE Damage
    BY <2>3, DamageInv
  <2>4. CASE Cut
    BY <2>4, CutInv
  <2>5. CASE ReceiveTcp \/ ReceiveUdp \/ ReceiveIcmp \/ ReceiveArp
    BY <2>5, ReceiveInv
  <2>6. CASE UNCHANGED fvars
    BY <2>6, FrameStutter
  <2> QED
    BY <2>1, <2>2, <2>3, <2>4, <2>5, <2>6 DEF FrameNext
<1> QED
  BY <1>1, <1>2, PTL DEF FrameSpec

(***************************************************************************)
(* A frame that arrives whole is accepted by exactly the loop it is meant  *)
(* for, which gets the packet that was sent: what the builders and         *)
(* serializers write, the parsers and checksum tests of the receive loops  *)
(* read back, for every message, address and payload.                      *)
(***************************************************************************)
THEOREM WholeFrameDeliveredHolds == FrameSpec => []WholeFrameDelivered
<1>1. FrameInv => WholeFrameDelivered
  <2> SUFFICES ASSUME FrameInv, phase = "received", altered \in {"intact", "padded"}
               PROVE  /\ (accepted.rc = 0) <=> MeantFor(sent, listener)
                      /\ accepted.rc = 0 => Content(accepted) = Content(sent.packet)
    BY DEF WholeFrameDelivered
  <2>1. /\ sent \in Messages /\ listener \in Listener /\ FrameOf(sent) # <<>>
        /\ Whole(frame, sent) /\ accepted = Accept(listener, frame)
    BY DEF FrameInv
  <2>2. Delivered(listener, frame, sent)
    <3>1. CASE sent.kind = "arp"
      BY <2>1, <3>1, WholeArp, ArpTaken, Zenon
    <3>2. CASE sent.kind # "arp"
      BY <2>1, <3>2, WholeWithin, WholeTaken, Zenon
    <3> QED
      BY <3>1, <3>2
  <2> QED
    BY <2>1, <2>2, Zenon DEF Delivered
<1> QED
  BY <1>1, FrameInvariant, PTL

(***************************************************************************)
(* A frame without its end, or with one changed byte, is ignored or taken  *)
(* as it was sent: no byte that any of the sums should cover is left out   *)
(* of it, for every message and every change.                              *)
(***************************************************************************)
THEOREM DamagedFrameHarmlessHolds == FrameSpec => []DamagedFrameHarmless
<1>1. FrameInv => DamagedFrameHarmless
  <2> SUFFICES ASSUME FrameInv, phase = "received", accepted.rc = 0,
                      \/ altered = "cut"
                      \/ altered = "damaged" /\ sent.kind \in {"tcp", "icmp"}
                      \/ altered = "damaged" /\ sent.kind = "udp" /\ ~HeaderLengthDamaged
               PROVE  /\ MeantFor(sent, listener)
                      /\ Content(accepted) = Content(sent.packet)
    BY DEF DamagedFrameHarmless
  <2>1. /\ sent \in Messages /\ listener \in Listener /\ FrameOf(sent) # <<>>
        /\ frame \in Seq(Byte) /\ accepted = Accept(listener, frame)
        /\ altered = "cut" => \E E : Whole(E, sent) /\ Occurs(E, 0, frame)
        /\ altered = "damaged" => \E E, i : Whole(E, sent) /\ ChangedAt(E, frame, i)
    BY DEF FrameInv
  <2>2. ASSUME Harmless(listener, frame, sent)
        PROVE  MeantFor(sent, listener) /\ Content(accepted) = Content(sent.packet)
    BY <2>1, <2>2, Zenon DEF Harmless
  <2>3. CASE altered = "cut"
    <3>1. PICK E : Whole(E, sent) /\ Occurs(E, 0, frame)
      BY <2>1, <2>3
    <3>2. CASE sent.kind = "arp"
      <4>1. Harmless(listener, frame, sent)
        BY <2>1, <3>1, <3>2, WholeArp, ArpCutHarmless, Zenon
      <4> QED
        BY <2>2, <4>1
    <3>3. CASE sent.kind # "arp"
      <4>1. Harmless(listener, frame, sent)
        BY <2>1, <3>1, <3>3, WholeWithin, CutHarmless, Zenon
      <4> QED
        BY <2>2, <4>1
    <3> QED
      BY <3>2, <3>3
  <2>4. CASE /\ altered = "damaged" /\ sent.kind \in {"tcp", "icmp", "udp"}
             /\ sent.kind = "udp" => ~HeaderLengthDamaged
    <3>1. PICK E, i : Whole(E, sent) /\ ChangedAt(E, frame, i)
      BY <2>1, <2>4
    <3>2. sent.kind # "arp"
      BY <2>4
    <3>3. PICK H, B : Within(E, H, B) /\ Sound(H, B, sent)
      BY <2>1, <3>1, <3>2, WholeWithin, Zenon
    <3>4. ASSUME sent.kind = "udp", i = 15 PROVE FALSE
      <4>1. frame[15] = 69
        BY <2>4, <3>4 DEF HeaderLengthDamaged, ETHERNET_HEADER_LEN
      <4>2. E[14 + 1] = H[1] /\ H[1] = 69
        <5>1. Occurs(E, 14, H) /\ Len(H) = 20 /\ H[1] = 69
          BY <3>3, Zenon DEF Within, Sound, Header
        <5> QED
          BY <5>1 DEF Occurs
      <4>3. frame[15] # E[15]
        BY <3>1, <3>4 DEF ChangedAt
      <4> QED
        BY <4>1, <4>2, <4>3
    <3>5. sent.kind = "udp" => i # 15
      BY <3>4
    <3>6. Harmless(listener, frame, sent)
      BY <2>1, <3>1, <3>2, <3>3, <3>5, DamageHarmless, Zenon
    <3> QED
      BY <2>2, <3>6
  <2> QED
    BY <2>3, <2>4
<1> QED
  BY <1>1, FrameInvariant, PTL

(***************************************************************************)
(* A message is left unsent exactly when it does not fit into one frame:   *)
(* every step of the encapsulation succeeds for a message that fits,       *)
(* whatever its checksum comes out as.                                     *)
(***************************************************************************)
THEOREM UnsentOnlyIfTooLongHolds == FrameSpec => []UnsentOnlyIfTooLong
<1>1. FrameInv => UnsentOnlyIfTooLong
  <2> SUFFICES ASSUME FrameInv, phase # "idle", sent.kind # "arp"
               PROVE  (phase = "unsent") <=>
                        (HeaderLen(sent) + Len(sent.packet.payload) > EthernetMaxPayload)
    BY DEF UnsentOnlyIfTooLong
  <2>1. /\ sent \in Messages /\ phase \in {"unsent", "wire", "received"}
        /\ phase = "unsent" => FrameOf(sent) = <<>>
        /\ phase \in {"wire", "received"} => FrameOf(sent) # <<>>
    BY DEF FrameInv
  <2>2. (FrameOf(sent) = <<>>) <=> (HeaderLen(sent) + Len(sent.packet.payload) > EthernetMaxPayload)
    BY <2>1, MessageFrame
  <2> QED
    BY <2>1, <2>2
<1> QED
  BY <1>1, FrameInvariant, PTL
==================================================================================
