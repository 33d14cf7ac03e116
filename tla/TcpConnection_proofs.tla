--------------------------- MODULE TcpConnection_proofs ---------------------------
(***************************************************************************)
(* The connection engine, for every size of the sequence space, the slots  *)
(* and the buffers, whatever the network delivers: no buffer outgrows its  *)
(* array and no counter leaves its range; the receive path keeps the       *)
(* peer's byte stream intact and leaves nothing deliverable behind; what   *)
(* is outstanding can be retransmitted, a fresh segment has a fresh retry  *)
(* budget, every retry waits twice as long, and a close means acknowledged *)
(* data.                                                                   *)
(***************************************************************************)
EXTENDS TcpConnection, SequenceTheorems, FiniteSetTheorems, Basics_proofs

(***************************************************************************)
(* Sequence-number arithmetic (seq_lt ... seq_ge of tcp_connection.c and   *)
(* the uint32_t additions around them).  The lemmas turn the modular       *)
(* operators into linear arithmetic, so that the proofs about the          *)
(* connection never see "%".                                               *)
(***************************************************************************)
\* The size of the space, written without a product.
LEMMA SeqModFacts == SeqMod \in Nat /\ SeqMod = HalfSpace + HalfSpace /\ SeqMod >= 4
BY HalfSpaceAssumption DEF SeqMod

\* Reduction of a number below twice the modulus.
LEMMA ModOnce ==
  ASSUME NEW x \in Nat, x < 2 * SeqMod
  PROVE  x % SeqMod = IF x < SeqMod THEN x ELSE x - SeqMod
BY SeqModFacts

\* Adding a length to a sequence number wraps at most once.
LEMMA SeqAddLinear ==
  ASSUME NEW a \in SeqNum, NEW n \in Nat, n <= SeqMod
  PROVE  SeqAdd(a, n) = IF a + n < SeqMod THEN a + n ELSE a + n - SeqMod
BY SeqModFacts, ModOnce DEF SeqAdd, SeqNum

\* The unsigned difference of two sequence numbers.
LEMMA SeqSubLinear ==
  ASSUME NEW a \in SeqNum, NEW b \in SeqNum
  PROVE  SeqSub(a, b) = IF a >= b THEN a - b ELSE a + SeqMod - b
<1> DEFINE x == a + SeqMod - b
<1>1. x \in Nat /\ x < 2 * SeqMod
  BY SeqModFacts DEF SeqNum
<1>2. x % SeqMod = IF x < SeqMod THEN x ELSE x - SeqMod
  BY <1>1, ModOnce
<1>3. SeqSub(a, b) = x % SeqMod
  BY DEF SeqSub
<1> QED
  BY <1>2, <1>3, SeqModFacts DEF SeqNum

\* Sequence numbers are closed under both.
LEMMA SeqClosed ==
  /\ \A a \in SeqNum : \A n \in Nat : SeqAdd(a, n) \in SeqNum
  /\ \A a, b \in SeqNum : SeqSub(a, b) \in SeqNum
<1>1. ASSUME NEW y \in Nat PROVE y % SeqMod \in SeqNum
  BY SeqModFacts DEF SeqNum
<1>2. ASSUME NEW a \in SeqNum, NEW n \in Nat PROVE SeqAdd(a, n) \in SeqNum
  BY <1>1, SeqModFacts DEF SeqAdd, SeqNum
<1>3. ASSUME NEW a \in SeqNum, NEW b \in SeqNum PROVE SeqSub(a, b) \in SeqNum
  BY SeqSubLinear, SeqModFacts DEF SeqNum
<1> QED
  BY <1>2, <1>3

\* Two lengths may be added one after the other.
LEMMA SeqAddAdd ==
  ASSUME NEW a \in SeqNum, NEW m \in Nat, NEW n \in Nat, m + n <= SeqMod
  PROVE  SeqAdd(SeqAdd(a, m), n) = SeqAdd(a, m + n)
<1>1. SeqAdd(a, m) \in SeqNum /\ m + n \in Nat /\ m <= SeqMod /\ n <= SeqMod
  BY SeqClosed, SeqModFacts
<1>2. SeqAdd(a, m) = IF a + m < SeqMod THEN a + m ELSE a + m - SeqMod
  BY <1>1, SeqAddLinear
<1>3. SeqAdd(SeqAdd(a, m), n) =
        IF SeqAdd(a, m) + n < SeqMod THEN SeqAdd(a, m) + n ELSE SeqAdd(a, m) + n - SeqMod
  BY <1>1, SeqAddLinear
<1>4. SeqAdd(a, m + n) = IF a + (m + n) < SeqMod THEN a + (m + n) ELSE a + (m + n) - SeqMod
  BY <1>1, SeqAddLinear
<1> QED
  BY <1>1, <1>2, <1>3, <1>4, SeqModFacts DEF SeqNum

\* Adding nothing changes nothing.
LEMMA SeqAddZero ==
  ASSUME NEW a \in SeqNum
  PROVE  SeqAdd(a, 0) = a
BY SeqAddLinear, SeqModFacts DEF SeqNum

\* Adding less than a whole turn always moves.
LEMMA SeqAddMoves ==
  ASSUME NEW a \in SeqNum, NEW n \in Nat, 0 < n, n < SeqMod
  PROVE  SeqAdd(a, n) # a
<1>1. n <= SeqMod
  BY SeqModFacts
<1>2. SeqAdd(a, n) = IF a + n < SeqMod THEN a + n ELSE a + n - SeqMod
  BY <1>1, SeqAddLinear
<1> QED
  BY <1>2, SeqModFacts DEF SeqNum

\* A difference is a distance.
LEMMA SeqSubInverse ==
  ASSUME NEW a \in SeqNum, NEW b \in SeqNum
  PROVE  SeqAdd(b, SeqSub(a, b)) = a
<1>1. SeqSub(a, b) \in Nat /\ SeqSub(a, b) <= SeqMod
  BY SeqClosed, SeqModFacts DEF SeqNum
<1>2. SeqAdd(b, SeqSub(a, b)) =
        IF b + SeqSub(a, b) < SeqMod THEN b + SeqSub(a, b) ELSE b + SeqSub(a, b) - SeqMod
  BY <1>1, SeqAddLinear
<1> QED
  BY <1>2, SeqSubLinear, SeqModFacts DEF SeqNum

\* Moving forward by n, less than a whole turn, gives a distance of n.
LEMMA SeqSubAdd ==
  ASSUME NEW a \in SeqNum, NEW n \in Nat, n < SeqMod
  PROVE  SeqSub(SeqAdd(a, n), a) = n
<1>1. SeqAdd(a, n) \in SeqNum /\ n <= SeqMod
  BY SeqClosed, SeqModFacts
<1>2. SeqAdd(a, n) = IF a + n < SeqMod THEN a + n ELSE a + n - SeqMod
  BY <1>1, SeqAddLinear
<1>3. SeqSub(SeqAdd(a, n), a) =
        IF SeqAdd(a, n) >= a THEN SeqAdd(a, n) - a ELSE SeqAdd(a, n) + SeqMod - a
  BY <1>1, SeqSubLinear
<1> QED
  BY <1>2, <1>3, SeqModFacts DEF SeqNum

\* The overlap of a range that reaches beyond r and does not start beyond it:
\* shorter than the range, so clipping it leaves something and process_payload
\* and promote_reassembly never take their "overlap > payload_len" exits.
LEMMA OverlapInRange ==
  ASSUME NEW s \in SeqNum, NEW r \in SeqNum, NEW n \in Nat, n < SeqMod,
         ~seq_le(SeqAdd(s, n), r), ~seq_gt(s, r)
  PROVE  /\ SeqSub(r, s) \in Nat
         /\ SeqSub(r, s) < n
         /\ SeqAdd(s, SeqSub(r, s)) = r
<1> DEFINE e == SeqAdd(s, n)
<1>1. e \in SeqNum /\ e = IF s + n < SeqMod THEN s + n ELSE s + n - SeqMod
  BY SeqClosed, SeqAddLinear, SeqModFacts
<1>2. SeqSub(e, r) # 0 /\ ~(SeqSub(e, r) >= HalfSpace)
  BY DEF seq_le
<1>3. SeqSub(s, r) = 0 \/ ~(SeqSub(s, r) < HalfSpace)
  BY DEF seq_gt
<1>4. SeqSub(e, r) = IF e >= r THEN e - r ELSE e + SeqMod - r
  BY <1>1, SeqSubLinear
<1>5. SeqSub(s, r) = IF s >= r THEN s - r ELSE s + SeqMod - r
  BY SeqSubLinear
<1>6. SeqSub(r, s) = IF r >= s THEN r - s ELSE r + SeqMod - s
  BY SeqSubLinear
<1> HIDE DEF e
<1>7. SeqSub(r, s) \in Nat /\ SeqSub(r, s) < n
  BY <1>1, <1>2, <1>3, <1>4, <1>5, <1>6, SeqModFacts, HalfSpaceAssumption DEF SeqNum
<1> QED
  BY <1>7, SeqSubInverse

\* An acknowledgment that on_segment accepts lies in the outstanding range.
LEMMA AckInWindow ==
  ASSUME NEW u \in SeqNum, NEW w \in Nat, w < HalfSpace, NEW a \in SeqNum,
         seq_gt(a, u), seq_le(a, SeqAdd(u, w))
  PROVE  /\ SeqSub(a, u) \in Nat /\ 0 < SeqSub(a, u) /\ SeqSub(a, u) <= w
         /\ a = SeqAdd(u, SeqSub(a, u))
         /\ (a = SeqAdd(u, w)) <=> (SeqSub(a, u) = w)
<1> DEFINE e == SeqAdd(u, w)
<1>1. e \in SeqNum /\ e = IF u + w < SeqMod THEN u + w ELSE u + w - SeqMod
  BY SeqClosed, SeqAddLinear, SeqModFacts, HalfSpaceAssumption
<1>2. SeqSub(a, u) # 0 /\ SeqSub(a, u) < HalfSpace
  BY DEF seq_gt
<1>3. SeqSub(a, e) = 0 \/ SeqSub(a, e) >= HalfSpace
  BY DEF seq_le
<1>4. SeqSub(a, u) = IF a >= u THEN a - u ELSE a + SeqMod - u
  BY SeqSubLinear
<1>5. SeqSub(a, e) = IF a >= e THEN a - e ELSE a + SeqMod - e
  BY <1>1, SeqSubLinear
<1> HIDE DEF e
<1>6. SeqSub(a, u) \in Nat /\ 0 < SeqSub(a, u) /\ SeqSub(a, u) <= w
  BY <1>1, <1>2, <1>3, <1>4, <1>5, SeqModFacts, HalfSpaceAssumption DEF SeqNum
<1>7. (a = e) <=> (SeqSub(a, u) = w)
  BY <1>1, <1>2, <1>4, SeqModFacts, HalfSpaceAssumption DEF SeqNum
<1> QED
  BY <1>6, <1>7, SeqSubInverse DEF e
-----------------------------------------------------------------------------
(***************************************************************************)
(* The buffers: what Bytes, Clip and concatenation do to runs of           *)
(* consecutive bytes.                                                      *)
(***************************************************************************)
\* A run of bytes is a sequence of its length.
LEMMA BytesType ==
  ASSUME NEW s \in SeqNum, NEW n \in Nat
  PROVE  /\ Bytes(s, n) \in Seq(SeqNum)
         /\ Len(Bytes(s, n)) = n
         /\ \A k \in 1 .. n : Bytes(s, n)[k] = SeqAdd(s, k - 1)
<1>1. \A k \in 1 .. n : SeqAdd(s, k - 1) \in SeqNum
  BY SeqClosed
<1>2. Bytes(s, n) \in [1 .. n -> SeqNum]
  BY <1>1 DEF Bytes
<1>3. Bytes(s, n) \in Seq(SeqNum)
  BY <1>2, SeqDef
<1>4. DOMAIN Bytes(s, n) = 1 .. n
  BY DEF Bytes
<1>5. Len(Bytes(s, n)) = n
  BY <1>3, <1>4, LenProperties
<1> QED
  BY <1>3, <1>5 DEF Bytes

\* The part of a sequence after its first k elements.
LEMMA DropType ==
  ASSUME NEW S, NEW q \in Seq(S), NEW k \in Nat, k <= Len(q)
  PROVE  /\ SubSeq(q, k + 1, Len(q)) \in Seq(S)
         /\ Len(SubSeq(q, k + 1, Len(q))) = Len(q) - k
         /\ \A i \in 1 .. Len(q) - k : SubSeq(q, k + 1, Len(q))[i] = q[k + i]
<1>1. Len(q) \in Nat
  BY LenProperties
<1>2. \A i \in k + 1 .. Len(q) : q[i] \in S
  BY <1>1, ElementOfSeq
<1>3. /\ SubSeq(q, k + 1, Len(q)) \in Seq(S)
      /\ Len(SubSeq(q, k + 1, Len(q))) = IF k + 1 <= Len(q) THEN Len(q) - (k + 1) + 1 ELSE 0
      /\ \A i \in 1 .. Len(q) - (k + 1) + 1 : SubSeq(q, k + 1, Len(q))[i] = q[(k + 1) + i - 1]
  BY <1>1, <1>2, SubSeqProperties
<1>4. Len(SubSeq(q, k + 1, Len(q))) = Len(q) - k
  BY <1>1, <1>3
<1>5. ASSUME NEW i \in 1 .. Len(q) - k
      PROVE  SubSeq(q, k + 1, Len(q))[i] = q[k + i]
  <2>1. i \in 1 .. Len(q) - (k + 1) + 1 /\ (k + 1) + i - 1 = k + i
    BY <1>1
  <2> QED
    BY <2>1, <1>3
<1> QED
  BY <1>3, <1>4, <1>5

\* Dropping the front of a run leaves the run that starts further on.
LEMMA BytesDrop ==
  ASSUME NEW s \in SeqNum, NEW n \in Nat, n < SeqMod, NEW k \in Nat, k <= n
  PROVE  SubSeq(Bytes(s, n), k + 1, n) = Bytes(SeqAdd(s, k), n - k)
<1> DEFINE l == SubSeq(Bytes(s, n), k + 1, n)
           r == Bytes(SeqAdd(s, k), n - k)
<1>1. SeqAdd(s, k) \in SeqNum /\ n - k \in Nat
  BY SeqClosed
<1>2. l \in Seq(SeqNum) /\ Len(l) = n - k /\ \A i \in 1 .. n - k : l[i] = Bytes(s, n)[k + i]
  <2> DEFINE q == Bytes(s, n)
  <2>1. q \in Seq(SeqNum) /\ Len(q) = n
    BY BytesType
  <2> HIDE DEF q
  <2>2. /\ SubSeq(q, k + 1, Len(q)) \in Seq(SeqNum)
        /\ Len(SubSeq(q, k + 1, Len(q))) = Len(q) - k
        /\ \A i \in 1 .. Len(q) - k : SubSeq(q, k + 1, Len(q))[i] = q[k + i]
    BY <2>1, DropType
  <2> QED
    BY <2>1, <2>2 DEF q
<1>3. r \in Seq(SeqNum) /\ Len(r) = n - k /\ \A i \in 1 .. n - k : r[i] = SeqAdd(SeqAdd(s, k), i - 1)
  BY <1>1, BytesType
<1>4. ASSUME NEW i \in 1 .. n - k PROVE l[i] = r[i]
  <2>1. l[i] = SeqAdd(s, (k + i) - 1)
    BY <1>2, BytesType
  <2>2. r[i] = SeqAdd(s, k + (i - 1))
    <3>1. i - 1 \in Nat /\ k + (i - 1) <= SeqMod
      BY SeqModFacts
    <3> QED
      BY <1>3, <3>1, SeqAddAdd
  <2>3. (k + i) - 1 = k + (i - 1)
    OBVIOUS
  <2> QED
    BY <2>1, <2>2, <2>3
<1> HIDE DEF l, r
<1>5. l = r
  BY <1>2, <1>3, <1>4, SeqEqual
<1> QED
  BY <1>5 DEF l, r

\* Two adjacent runs make one.
LEMMA BytesConcat ==
  ASSUME NEW s \in SeqNum, NEW m \in Nat, NEW n \in Nat, m + n < SeqMod
  PROVE  Bytes(s, m) \o Bytes(SeqAdd(s, m), n) = Bytes(s, m + n)
<1> DEFINE a == Bytes(s, m)
           b == Bytes(SeqAdd(s, m), n)
           c == Bytes(s, m + n)
<1>1. SeqAdd(s, m) \in SeqNum /\ m + n \in Nat
  BY SeqClosed
<1>2. a \in Seq(SeqNum) /\ Len(a) = m /\ \A i \in 1 .. m : a[i] = SeqAdd(s, i - 1)
  BY BytesType
<1>3. b \in Seq(SeqNum) /\ Len(b) = n /\ \A i \in 1 .. n : b[i] = SeqAdd(SeqAdd(s, m), i - 1)
  BY <1>1, BytesType
<1>4. c \in Seq(SeqNum) /\ Len(c) = m + n /\ \A i \in 1 .. m + n : c[i] = SeqAdd(s, i - 1)
  BY <1>1, BytesType
<1> HIDE DEF a, b, c
<1>5. /\ a \o b \in Seq(SeqNum) /\ Len(a \o b) = m + n
      /\ \A i \in 1 .. m + n : (a \o b)[i] = IF i <= m THEN a[i] ELSE b[i - m]
  BY <1>2, <1>3, ConcatProperties
<1>6. ASSUME NEW i \in 1 .. m + n PROVE (a \o b)[i] = c[i]
  <2>1. CASE i <= m
    BY <2>1, <1>2, <1>4, <1>5
  <2>2. CASE ~(i <= m)
    <3>1. i - m \in 1 .. n /\ (i - m) - 1 \in Nat /\ m + ((i - m) - 1) <= SeqMod
      BY <2>2, SeqModFacts
    <3>2. b[i - m] = SeqAdd(s, m + ((i - m) - 1))
      BY <3>1, <1>3, SeqAddAdd
    <3>3. m + ((i - m) - 1) = i - 1
      OBVIOUS
    <3> QED
      BY <2>2, <3>2, <3>3, <1>4, <1>5
  <2> QED
    BY <2>1, <2>2
<1>7. a \o b = c
  BY <1>4, <1>5, <1>6, SeqEqual
<1> QED
  BY <1>7 DEF a, b, c

\* Clipping a payload drops as many bytes as the overlap has.
LEMMA ClipType ==
  ASSUME NEW q \in Seq(SeqNum), NEW k \in Nat, k <= Len(q)
  PROVE  Clip(q, k) \in Seq(SeqNum) /\ Len(Clip(q, k)) = Len(q) - k
BY DropType DEF Clip
-----------------------------------------------------------------------------
(***************************************************************************)
(* Type correctness.                                                       *)
(***************************************************************************)
USE DEF SpaceUsed

\* ProcessAck keeps the types of the variables it assigns.
LEMMA ProcessAckType ==
  ASSUME TypeOK, NEW s \in AnySegment, ProcessAck(s)
  PROVE  /\ send_unacknowledged' \in SeqNum /\ send_next' \in SeqNum
         /\ retransmit_timeout' \in DefaultRto .. MaxRto
         /\ retransmit_elapsed' \in 0 .. TimerMax
         /\ retransmit_count' \in 0 .. RetransmitLimit
         /\ last_segment' \in AnySegment /\ has_retransmit_segment' \in {0, 1}
BY TimerAssumption DEF TypeOK, ProcessAck, timerVars, AnySegment

\* What the build functions share keeps the sender's fields in range.
LEMMA EmitType ==
  ASSUME TypeOK, NEW s \in AnySegment, Emit(s)
  PROVE  /\ send_unacknowledged' \in SeqNum /\ send_next' \in SeqNum
         /\ retransmit_timeout' \in DefaultRto .. MaxRto
         /\ retransmit_elapsed' \in 0 .. TimerMax
         /\ retransmit_count' \in 0 .. RetransmitLimit
         /\ last_segment' \in AnySegment /\ has_retransmit_segment' \in {0, 1}
         /\ result' \in Int
         /\ UNCHANGED <<receive_next, queueVars, receive_ready, finVars, callVars, app_next, stalled>>
<1>1. SpaceUsed(s) \in Nat
  BY DEF AnySegment
<1>2. SeqAdd(send_next, SpaceUsed(s)) \in SeqNum
  BY <1>1, SeqClosed DEF TypeOK
<1> QED
  BY <1>2, TimerAssumption DEF TypeOK, Emit, remember_for_retransmission

\* The three build functions keep the types.
LEMMA BuildType ==
  ASSUME TypeOK
  PROVE  /\ BuildSyn => TypeOK'
         /\ BuildFin => TypeOK'
         /\ \A n \in DataLens : BuildData(n) => TypeOK'
<1>1. ASSUME BuildSyn PROVE TypeOK'
  <2> DEFINE s == [seq |-> send_next, ack |-> 0, flags |-> {"SYN"}, len |-> 0]
  <2>1. s \in AnySegment
    BY EngineAssumption, SeqModFacts DEF TypeOK, AnySegment, Flag, SeqNum
  <2>2. Emit(s)
    BY <1>1 DEF BuildSyn
  <2>3. state' = "SYN_SENT" /\ opens' \in 0 .. MaxOpens
    BY <1>1, EngineAssumption DEF BuildSyn, TypeOK
  <2> HIDE DEF s
  <2> QED
    BY <2>1, <2>2, <2>3, EmitType DEF TypeOK, States, queueVars, finVars, callVars
<1>2. ASSUME BuildFin PROVE TypeOK'
  <2> DEFINE s == [seq |-> send_next, ack |-> receive_next, flags |-> {"FIN", "ACK"}, len |-> 0]
  <2>1. s \in AnySegment
    BY EngineAssumption DEF TypeOK, AnySegment, Flag
  <2>2. Emit(s)
    BY <1>2 DEF BuildFin
  <2> HIDE DEF s
  <2> QED
    BY <1>2, <2>1, <2>2, EmitType DEF BuildFin, TypeOK, States, queueVars, finVars, callVars
<1>3. ASSUME NEW n \in DataLens, BuildData(n) PROVE TypeOK'
  <2> DEFINE s == [seq |-> send_next, ack |-> receive_next, flags |-> {"ACK"}, len |-> n]
  <2>1. s \in AnySegment
    BY InputAssumption DEF TypeOK, AnySegment, Flag
  <2>2. Emit(s)
    BY <1>3 DEF BuildData
  <2> HIDE DEF s
  <2> QED
    BY <1>3, <2>1, <2>2, EmitType DEF BuildData, TypeOK, States, queueVars, finVars, callVars
<1> QED
  BY <1>1, <1>2, <1>3

\* tcp_connection_tick keeps the timer, its timeout and its count in range.
LEMMA TickType ==
  ASSUME TypeOK, NEW ms \in Ticks, Tick(ms)
  PROVE  TypeOK'
<1>1. AdvanceTimer(retransmit_elapsed, ms) \in 0 .. TimerMax
  BY InputAssumption, TimerAssumption DEF AdvanceTimer, TypeOK
<1>2. BackOff(retransmit_timeout) \in DefaultRto .. MaxRto
  BY TimerAssumption DEF BackOff, TypeOK
<1>3. CASE TickWait(ms)
  BY <1>1, <1>3 DEF TickWait, TickFrame, TypeOK, queueVars, finVars, callVars, sendVars
<1>4. CASE TickRetransmit(ms)
  BY <1>2, <1>4, TimerAssumption
  DEF TickRetransmit, TickFrame, TypeOK, queueVars, finVars, callVars, sendVars
<1>5. CASE TickGiveUp(ms)
  BY <1>1, <1>5 DEF TickGiveUp, TickFrame, TypeOK, queueVars, finVars, callVars, sendVars, States
<1> QED
  BY <1>3, <1>4, <1>5 DEF Tick

\* tcp_connection_read keeps the types.
LEMMA ReadType ==
  ASSUME TypeOK, NEW n \in ReadLens, Read(n)
  PROVE  TypeOK'
<1> DEFINE copy_len == IF Len(receive_ready) > n THEN n ELSE Len(receive_ready)
<1>1. Len(receive_ready) \in Nat /\ Len(receive_ready) # 0 /\ n \in Nat /\ n # 0
  BY InputAssumption, EmptySeq, LenProperties DEF Read, TypeOK
<1>2. copy_len \in 1 .. Len(receive_ready) /\ copy_len \in Nat
  BY <1>1
<1>3. receive_ready[copy_len] \in SeqNum
  BY <1>2, ElementOfSeq DEF TypeOK
<1>4. /\ receive_ready' = SubSeq(receive_ready, copy_len + 1, Len(receive_ready))
      /\ app_next' = SeqAdd(receive_ready[copy_len], 1)
      /\ result' = copy_len
      /\ UNCHANGED <<state, sendVars, receive_next, timerVars, queueVars, finVars, callVars,
                     opens, stalled>>
  BY DEF Read
<1> HIDE DEF copy_len
<1>5. receive_ready' \in Seq(SeqNum) /\ Len(receive_ready') <= ReadyCapacity
  BY <1>1, <1>2, <1>4, DropType, EngineAssumption DEF TypeOK
<1>6. app_next' \in SeqNum /\ result' \in Int
  BY <1>2, <1>3, <1>4, SeqClosed
<1> QED
  BY <1>4, <1>5, <1>6 DEF TypeOK, sendVars, timerVars, queueVars, finVars, callVars

\* A freed slot, and the queue after clear_reassembly, are well typed.
LEMMA FreeSlotType == FreeSlot \in BufferedSlot /\ Len(FreeSlot.payload) <= SlotDataLen
<1>1. 0 \in SeqNum
  BY SeqModFacts DEF SeqNum
<1>2. <<>> \in Seq(SeqNum) /\ Len(<<>>) = 0
  BY EmptySeq
<1> QED
  BY <1>1, <1>2, EngineAssumption DEF FreeSlot, BufferedSlot

\* RST, handshake and segments that only acknowledge keep the types.
LEMMA RecvControlType ==
  ASSUME TypeOK, NEW s \in AnySegment
  PROVE  /\ RecvRst(s) => TypeOK'
         /\ Handshake(s) => TypeOK'
         /\ RecvAckOnly(s) => TypeOK'
<1>1. 0 \in SeqNum
  BY SeqModFacts DEF SeqNum
<1>2. ASSUME RecvRst(s) PROVE TypeOK'
  <2>1. receive_ready' \in Seq(SeqNum) /\ Len(receive_ready') <= ReadyCapacity
    BY <1>2, EmptySeq, EngineAssumption DEF RecvRst
  <2>2. /\ reassembly' \in [Slots -> BufferedSlot]
        /\ \A i \in Slots : Len(reassembly'[i].payload) <= SlotDataLen
    BY <1>2, FreeSlotType DEF RecvRst
  <2> QED
    BY <1>1, <1>2, <2>1, <2>2 DEF RecvRst, TypeOK, States, sendVars, callVars
<1>3. ASSUME Handshake(s) PROVE TypeOK'
  <2>1. SeqAdd(s.seq, 1) \in SeqNum /\ s.ack \in SeqNum
    BY SeqClosed DEF AnySegment
  <2> QED
    BY <1>3, <2>1, TimerAssumption DEF Handshake, TypeOK, States, queueVars, finVars, callVars
<1>4. ASSUME RecvAckOnly(s) PROVE TypeOK'
  <2>1. ProcessAck(s) /\ result' \in Int
    BY <1>4 DEF RecvAckOnly
  <2> QED
    BY <1>4, <2>1, ProcessAckType DEF RecvAckOnly, TypeOK, queueVars, finVars, callVars
<1> QED
  BY <1>2, <1>3, <1>4

\* Where a call continues and where it returns.
LEMMA CallType ==
  ASSUME NEW s \in AnySegment
  PROVE  /\ \A where \in {"promote", "fin"} : continue(where, s) =>
              /\ pc' = where /\ fin_flag' \in {0, 1} /\ fin_sequence' \in SeqNum
              /\ slot_i' \in 1 .. SlotCount + 1 /\ progress' \in {0, 1} /\ result' \in Int
         /\ \A code \in Int : return(code) =>
              /\ pc' = "idle" /\ fin_flag' \in {0, 1} /\ fin_sequence' \in SeqNum
              /\ slot_i' \in 1 .. SlotCount + 1 /\ progress' \in {0, 1} /\ result' \in Int
<1>1. 0 \in SeqNum /\ PayloadEnd(s) \in SeqNum
  BY SeqClosed, SeqModFacts DEF SeqNum, PayloadEnd, AnySegment
<1> QED
  BY <1>1, EngineAssumption DEF continue, return

\* process_payload keeps the types: no slot and no buffer overflows.
LEMMA RecvDataType ==
  ASSUME TypeOK, NEW s \in AnySegment
  PROVE  /\ RecvNothingNew(s) => TypeOK'
         /\ buffer_future_payload(s) => TypeOK'
         /\ RecvNoCapacity(s) => TypeOK'
         /\ RecvInOrder(s) => TypeOK'
<1>1. ASSUME RecvNothingNew(s) PROVE TypeOK'
  <2>1. ProcessAck(s) /\ continue("fin", s) /\ RecvFrame
        /\ UNCHANGED <<receive_next, queueVars, receive_ready>>
    BY <1>1 DEF RecvNothingNew
  <2> QED
    BY <2>1, ProcessAckType, CallType DEF TypeOK, RecvFrame, queueVars, finVars
<1>2. ASSUME buffer_future_payload(s) PROVE TypeOK'
  <2>1. /\ ProcessAck(s) /\ continue("fin", s) /\ RecvFrame
        /\ UNCHANGED <<receive_next, receive_ready>>
        /\ reassembly_count' = reassembly_count + 1
        /\ s.len <= SlotDataLen
    BY <1>2 DEF buffer_future_payload
  <2>2. PICK i \in Slots : reassembly' = [reassembly EXCEPT ![i] =
            [used |-> 1, sequence_number |-> s.seq, payload |-> Bytes(s.seq, s.len)]]
    BY <1>2 DEF buffer_future_payload
  <2>3. /\ s.seq \in SeqNum /\ Bytes(s.seq, s.len) \in Seq(SeqNum)
        /\ Len(Bytes(s.seq, s.len)) <= SlotDataLen
    BY <2>1, BytesType DEF AnySegment
  <2>4. /\ reassembly' \in [Slots -> BufferedSlot]
        /\ \A j \in Slots : Len(reassembly'[j].payload) <= SlotDataLen
    BY <2>2, <2>3 DEF TypeOK, BufferedSlot
  <2> QED
    BY <2>1, <2>4, ProcessAckType, CallType DEF TypeOK, RecvFrame, finVars
<1>3. ASSUME RecvNoCapacity(s) PROVE TypeOK'
  <2>1. ProcessAck(s) /\ return(-2) /\ RecvFrame
        /\ UNCHANGED <<receive_next, queueVars, receive_ready>>
    BY <1>3 DEF RecvNoCapacity
  <2>2. -2 \in Int
    OBVIOUS
  <2> QED
    BY <2>1, <2>2, ProcessAckType, CallType DEF TypeOK, RecvFrame, queueVars, finVars
<1>4. ASSUME RecvInOrder(s) PROVE TypeOK'
  <2> DEFINE overlap == SeqSub(receive_next, s.seq)
             new_len == s.len - overlap
  <2>1. /\ ProcessAck(s) /\ continue("promote", s) /\ RecvFrame /\ UNCHANGED queueVars
        /\ InOrder(s) /\ ready_append_fits(new_len)
        /\ receive_ready' = receive_ready \o Clip(Bytes(s.seq, s.len), overlap)
        /\ receive_next' = SeqAdd(receive_next, new_len)
    BY <1>4 DEF RecvInOrder
  <2>2. s.seq \in SeqNum /\ s.len \in Nat /\ s.len < SeqMod /\ receive_next \in SeqNum
    BY EngineAssumption, SeqModFacts, HalfSpaceAssumption DEF AnySegment, TypeOK
  <2>3. overlap \in Nat /\ overlap < s.len
    BY <2>1, <2>2, OverlapInRange DEF InOrder, Old, PayloadEnd
  <2> HIDE DEF overlap
  <2>4. Clip(Bytes(s.seq, s.len), overlap) \in Seq(SeqNum)
        /\ Len(Clip(Bytes(s.seq, s.len), overlap)) = new_len
    <3> DEFINE q == Bytes(s.seq, s.len)
    <3>1. q \in Seq(SeqNum) /\ Len(q) = s.len
      BY <2>2, BytesType
    <3> HIDE DEF q
    <3>2. Clip(q, overlap) \in Seq(SeqNum) /\ Len(Clip(q, overlap)) = Len(q) - overlap
      BY <2>2, <2>3, <3>1, ClipType
    <3> QED
      BY <3>1, <3>2 DEF q
  <2>5. receive_ready' \in Seq(SeqNum) /\ Len(receive_ready') <= ReadyCapacity
    BY <2>1, <2>2, <2>3, <2>4, ConcatProperties, LenProperties, EngineAssumption
    DEF TypeOK, ready_append_fits
  <2>6. receive_next' \in SeqNum
    BY <2>1, <2>2, <2>3, SeqClosed
  <2> QED
    BY <2>1, <2>5, <2>6, ProcessAckType, CallType DEF TypeOK, RecvFrame, queueVars, finVars
<1> QED
  BY <1>1, <1>2, <1>3, <1>4

\* What a contiguous slot adds to the ready buffer.
LEMMA SlotOverlap ==
  ASSUME TypeOK, NEW i \in Slots, Contiguous(reassembly[i])
  PROVE  LET slot    == reassembly[i]
             overlap == SeqSub(receive_next, slot.sequence_number)
         IN  /\ slot.payload \in Seq(SeqNum) /\ slot.sequence_number \in SeqNum
             /\ Len(slot.payload) \in Nat /\ Len(slot.payload) < HalfSpace
             /\ overlap \in Nat /\ overlap < Len(slot.payload)
             /\ ~seq_le(SlotEnd(slot), receive_next)
             /\ ~seq_gt(slot.sequence_number, receive_next)
<1> DEFINE slot == reassembly[i]
<1>1. slot.payload \in Seq(SeqNum) /\ slot.sequence_number \in SeqNum
      /\ Len(slot.payload) <= SlotDataLen
  BY DEF TypeOK, BufferedSlot
<1>2. ~seq_le(SlotEnd(slot), receive_next) /\ ~seq_gt(slot.sequence_number, receive_next)
  BY DEF Contiguous, Obsolete
<1> HIDE DEF slot
<1>3. Len(slot.payload) \in Nat
  BY <1>1, LenProperties
<1>4. Len(slot.payload) < HalfSpace /\ Len(slot.payload) < SeqMod
  BY <1>1, <1>3, EngineAssumption, SeqModFacts, HalfSpaceAssumption
<1>5. receive_next \in SeqNum
  BY DEF TypeOK
<1>6. /\ SeqSub(receive_next, slot.sequence_number) \in Nat
      /\ SeqSub(receive_next, slot.sequence_number) < Len(slot.payload)
  BY <1>1, <1>2, <1>3, <1>4, <1>5, OverlapInRange DEF SlotEnd
<1> QED
  BY <1>1, <1>2, <1>3, <1>4, <1>6 DEF slot

\* remove_reassembly_slot keeps the queue's type.
LEMMA RemoveType ==
  ASSUME TypeOK, NEW i \in Slots, remove_reassembly_slot(i)
  PROVE  /\ reassembly' \in [Slots -> BufferedSlot]
         /\ \A j \in Slots : Len(reassembly'[j].payload) <= SlotDataLen
         /\ reassembly_count' \in Nat
BY FreeSlotType DEF TypeOK, remove_reassembly_slot

\* The steps of promote_reassembly keep the types.
LEMMA PromoteType ==
  ASSUME TypeOK, Promote
  PROVE  TypeOK'
<1>1. CASE PromoteSkip
  BY <1>1, EngineAssumption
  DEF PromoteSkip, Scanning, ScanFrame, TypeOK, sendVars, timerVars, queueVars, finVars
<1>2. CASE PromoteObsolete
  <2>1. slot_i \in Slots /\ slot_i' \in 1 .. SlotCount + 1
    BY <1>2, EngineAssumption DEF PromoteObsolete, Scanning, Slots, TypeOK
  <2>2. remove_reassembly_slot(slot_i)
    BY <1>2 DEF PromoteObsolete
  <2> QED
    BY <1>2, <2>1, <2>2, RemoveType
    DEF PromoteObsolete, ScanFrame, TypeOK, sendVars, timerVars, finVars
<1>3. CASE PromoteDeliver
  <2> DEFINE slot    == reassembly[slot_i]
             overlap == SeqSub(receive_next, slot.sequence_number)
             new_len == Len(slot.payload) - overlap
  <2>1. slot_i \in Slots /\ slot_i' \in 1 .. SlotCount + 1
    BY <1>3, EngineAssumption DEF PromoteDeliver, Scanning, Slots, TypeOK
  <2>2. /\ Contiguous(slot) /\ ready_append_fits(new_len)
        /\ receive_ready' = receive_ready \o Clip(slot.payload, overlap)
        /\ receive_next' = SeqAdd(receive_next, new_len)
        /\ remove_reassembly_slot(slot_i) /\ progress' = 1 /\ ScanFrame
    BY <1>3 DEF PromoteDeliver, NewLen
  <2>3. /\ slot.payload \in Seq(SeqNum) /\ Len(slot.payload) \in Nat
        /\ overlap \in Nat /\ overlap < Len(slot.payload)
    BY <2>1, <2>2, SlotOverlap
  <2> HIDE DEF overlap, slot
  <2>4. Clip(slot.payload, overlap) \in Seq(SeqNum) /\ Len(Clip(slot.payload, overlap)) = new_len
    <3>1. overlap <= Len(slot.payload)
      BY <2>3
    <3> QED
      BY <2>3, <3>1, ClipType
  <2>5. new_len \in Nat
    BY <2>3
  <2> HIDE DEF new_len
  <2>6. receive_next' \in SeqNum
    BY <2>2, <2>5, SeqClosed DEF TypeOK
  <2>7. receive_ready' \in Seq(SeqNum) /\ Len(receive_ready') = Len(receive_ready) + new_len
    BY <2>2, <2>4, ConcatProperties DEF TypeOK
  <2>8. Len(receive_ready') <= ReadyCapacity
    BY <2>2, <2>5, <2>7, LenProperties, EngineAssumption DEF TypeOK, ready_append_fits
  <2> QED
    BY <2>1, <2>2, <2>6, <2>7, <2>8, RemoveType DEF ScanFrame, TypeOK, sendVars, timerVars, finVars
<1>4. CASE PromoteNoCapacity
  <2>1. /\ return(-2) /\ stalled' = 1
        /\ UNCHANGED <<state, sendVars, receive_next, timerVars, queueVars, receive_ready, finVars,
                       app_next, opens>>
    BY <1>4 DEF PromoteNoCapacity
  <2>2. 0 \in SeqNum /\ -2 \in Int
    BY SeqModFacts DEF SeqNum
  <2> QED
    BY <2>1, <2>2, EngineAssumption
    DEF return, TypeOK, sendVars, timerVars, queueVars, finVars
<1>5. CASE PromoteRescan
  BY <1>5, EngineAssumption
  DEF PromoteRescan, ScanFrame, TypeOK, sendVars, timerVars, queueVars, finVars
<1>6. CASE PromoteDone
  <2> DEFINE r == consume_pending_fin(Receiver)
  <2>1. SeqAdd(receive_next, 1) \in SeqNum
    BY SeqClosed DEF TypeOK
  <2>2. r.next \in SeqNum /\ r.state \in States /\ r.pending \in {0, 1} /\ r.pending_seq \in SeqNum
    BY <2>1 DEF consume_pending_fin, Receiver, AfterFin, States, TypeOK
  <2>3. receive_next' = r.next /\ state' = r.state /\ pending_fin' = r.pending
        /\ pending_fin_sequence' = r.pending_seq
    BY <1>6 DEF PromoteDone, SetReceiver
  <2> HIDE DEF r
  <2> QED
    BY <1>6, <2>2, <2>3, EngineAssumption DEF PromoteDone, TypeOK, sendVars, timerVars, queueVars
<1> QED
  BY <1>1, <1>2, <1>3, <1>4, <1>5, <1>6 DEF Promote

\* process_fin and the end of on_segment keep the types.
LEMMA FinishType ==
  ASSUME TypeOK, FinishSegment
  PROVE  TypeOK'
<1> DEFINE p == process_fin(Receiver, fin_flag, fin_sequence)
           r == consume_pending_fin(p)
<1>1. SeqAdd(receive_next, 1) \in SeqNum
  BY SeqClosed DEF TypeOK
<1>2. p \in [next : SeqNum, state : States, pending : {0, 1}, pending_seq : SeqNum]
  BY <1>1 DEF process_fin, Receiver, AfterFin, States, TypeOK
<1> HIDE DEF p
<1>3. SeqAdd(p.next, 1) \in SeqNum
  BY <1>2, SeqClosed
<1>4. r \in [next : SeqNum, state : States, pending : {0, 1}, pending_seq : SeqNum]
  BY <1>2, <1>3 DEF consume_pending_fin, AfterFin, States
<1>5. /\ receive_next' = r.next /\ pending_fin' = r.pending /\ pending_fin_sequence' = r.pending_seq
      /\ state' = AfterAck(r.state)
      /\ has_retransmit_segment' \in {0, has_retransmit_segment}
      /\ return(0)
      /\ UNCHANGED <<sendVars, retransmit_timeout, retransmit_elapsed, retransmit_count,
                     queueVars, receive_ready, app_next, opens, stalled>>
  BY DEF FinishSegment, SetReceiver, p
<1> HIDE DEF r
<1>6. AfterAck(r.state) \in States
  BY <1>4 DEF AfterAck, States
<1>7. 0 \in SeqNum
  BY SeqModFacts DEF SeqNum
<1> QED
  BY <1>4, <1>5, <1>6, <1>7, EngineAssumption DEF return, TypeOK, sendVars, queueVars

\* tcp_connection_init establishes the types.
LEMMA TypeInit == Init => TypeOK
<1>1. 0 \in SeqNum
  BY SeqModFacts DEF SeqNum
<1>2. <<>> \in Seq(SeqNum) /\ Len(<<>>) = 0
  BY EmptySeq
<1> SUFFICES ASSUME Init PROVE TypeOK
  OBVIOUS
<1>3. last_segment \in AnySegment
  BY <1>1, EngineAssumption DEF Init, ZeroSegment, AnySegment
<1>4. reassembly \in [Slots -> BufferedSlot] /\ \A i \in Slots : Len(reassembly[i].payload) <= SlotDataLen
  BY FreeSlotType DEF Init
<1> QED
  BY <1>1, <1>2, <1>3, <1>4, EngineAssumption, TimerAssumption, InputAssumption
  DEF Init, TypeOK, States

\* Every step keeps the types.
LEMMA TypeStep == TypeOK /\ [Next]_vars => TypeOK'
<1> SUFFICES ASSUME TypeOK, [Next]_vars PROVE TypeOK'
  OBVIOUS
<1>1. CASE BuildSyn \/ BuildFin \/ \E n \in DataLens : BuildData(n)
  BY <1>1, BuildType
<1>2. CASE \E ms \in Ticks : Tick(ms)
  BY <1>2, TickType
<1>3. CASE \E n \in ReadLens : Read(n)
  BY <1>3, ReadType
<1>4. CASE \E s \in Segment : OnSegment(s)
  BY <1>4, InputAssumption, RecvControlType, RecvDataType DEF OnSegment
<1>5. CASE Continue
  BY <1>5, PromoteType, FinishType DEF Continue
<1>6. CASE UNCHANGED vars
  BY <1>6 DEF TypeOK, vars, sendVars, timerVars, queueVars, finVars, callVars
<1> QED
  BY <1>1, <1>2, <1>3, <1>4, <1>5, <1>6 DEF Next

\* The connection engine keeps every field of tcp_connection_t in its range:
\* the ready buffer and the reassembly slots never overflow their arrays, the
\* timeout stays between its bounds and the retry count below its limit, for
\* any segments, any interleaving of calls and any sizes of the buffers.
THEOREM TypeCorrect == Spec => []TypeOK
BY TypeInit, TypeStep, PTL DEF Spec
-----------------------------------------------------------------------------
(***************************************************************************)
(* The receive path.                                                       *)
(***************************************************************************)
\* Every slot holds the bytes its sequence number and length announce.
SlotsFaithful ==
  \A i \in Slots : reassembly[i].used = 1 =>
    reassembly[i].payload = Bytes(reassembly[i].sequence_number, Len(reassembly[i].payload))

\* on_segment reaches its loops only in a state that takes data.
CallInOpenState == pc # "idle" => state \in DataStates \cup {"TIME_WAIT"}

\* Nothing is buffered before the first handshake completes.
EmptyBeforeHandshake ==
  /\ opens = 0 => state \in {"CLOSED", "RESET"}
  /\ (opens = 0 \/ (opens = 1 /\ state = "SYN_SENT")) =>
       receive_ready = <<>> /\ \A i \in Slots : reassembly[i].used = 0

\* The slots that a scan has passed since it last made progress are behind a
\* gap; all of them are once the scan is over.
FutureSlot(i) ==
  reassembly[i].used = 1 => seq_gt(reassembly[i].sequence_number, receive_next)

ScannedSlotsAreFuture ==
  (opens = 1 /\ state \in Receiving) =>
    /\ (pc # "promote" /\ stalled = 0) => \A i \in Slots : FutureSlot(i)
    /\ (pc = "promote" /\ progress = 0) => \A i \in Slots : i < slot_i => FutureSlot(i)

ReceiveInv ==
  /\ SlotsFaithful
  /\ CallInOpenState
  /\ EmptyBeforeHandshake
  /\ StreamIntegrity
  /\ ScannedSlotsAreFuture

receiveVars == <<receive_next, reassembly, receive_ready, pc, slot_i, progress, app_next, stalled>>

USE DEF Receiving, DataStates

\* A connection fresh from tcp_connection_init satisfies the invariant.
LEMMA ReceiveInit == Init => ReceiveInv
BY DEF Init, ReceiveInv, SlotsFaithful, CallInOpenState, EmptyBeforeHandshake, StreamIntegrity,
       ScannedSlotsAreFuture, FreeSlot

\* Steps that touch no buffer: they may change the state, never into one that
\* receives unless it received before.
LEMMA QuietStep ==
  ASSUME ReceiveInv, UNCHANGED receiveVars, UNCHANGED opens,
         state' = state \/ pc = "idle",
         state' \in Receiving => state \in Receiving,
         state' = "SYN_SENT" => state = "SYN_SENT",
         opens = 0 => state' \in {"CLOSED", "RESET"}
  PROVE  ReceiveInv'
<1> USE DEF receiveVars
<1>1. SlotsFaithful'
  BY DEF ReceiveInv, SlotsFaithful
<1>2. CallInOpenState'
  BY DEF ReceiveInv, CallInOpenState
<1>3. EmptyBeforeHandshake'
  BY DEF ReceiveInv, EmptyBeforeHandshake
<1>4. StreamIntegrity'
  BY DEF ReceiveInv, StreamIntegrity, Bytes
<1>5. ScannedSlotsAreFuture'
  BY DEF ReceiveInv, ScannedSlotsAreFuture, FutureSlot
<1> QED
  BY <1>1, <1>2, <1>3, <1>4, <1>5 DEF ReceiveInv

\* Building a SYN, a data segment or a FIN leaves the receive side consistent.
LEMMA BuildReceive ==
  ASSUME TypeOK, ReceiveInv
  PROVE  /\ BuildSyn => ReceiveInv'
         /\ BuildFin => ReceiveInv'
         /\ \A n \in DataLens : BuildData(n) => ReceiveInv'
<1>1. ASSUME BuildSyn PROVE ReceiveInv'
  <2>1. /\ UNCHANGED receiveVars /\ pc = "idle" /\ state = "CLOSED" /\ state' = "SYN_SENT"
        /\ opens' = opens + 1 /\ opens \in Nat
    BY <1>1, EngineAssumption DEF BuildSyn, Emit, receiveVars, queueVars, callVars, TypeOK
  <2>2. SlotsFaithful'
    BY <2>1 DEF ReceiveInv, SlotsFaithful, receiveVars
  <2>3. EmptyBeforeHandshake'
    BY <2>1 DEF ReceiveInv, EmptyBeforeHandshake, receiveVars
  <2> QED
    BY <2>1, <2>2, <2>3
    DEF ReceiveInv, CallInOpenState, StreamIntegrity, ScannedSlotsAreFuture, receiveVars
<1>2. ASSUME BuildFin PROVE ReceiveInv'
  BY <1>2, QuietStep
  DEF BuildFin, Emit, receiveVars, queueVars, callVars, ReceiveInv, EmptyBeforeHandshake
<1>3. ASSUME NEW n \in DataLens, BuildData(n) PROVE ReceiveInv'
  BY <1>3, QuietStep
  DEF BuildData, Emit, receiveVars, queueVars, callVars, ReceiveInv, EmptyBeforeHandshake
<1> QED
  BY <1>1, <1>2, <1>3

\* Neither does tcp_connection_tick disturb it; giving up leaves the receiving states.
LEMMA TickReceive ==
  ASSUME ReceiveInv, NEW ms \in Ticks, Tick(ms)
  PROVE  ReceiveInv'
<1>1. /\ UNCHANGED receiveVars /\ UNCHANGED opens /\ pc = "idle"
      /\ state' \in {state, "RESET"}
  BY DEF Tick, TickWait, TickRetransmit, TickGiveUp, TickGuard, TickFrame, receiveVars, queueVars,
         callVars
<1>2. opens = 0 => state \in {"CLOSED", "RESET"}
  BY DEF ReceiveInv, EmptyBeforeHandshake
<1> QED
  BY <1>1, <1>2, QuietStep

\* A read from a run of bytes hands over its first result bytes and leaves the
\* rest of the run, which ends where it ended.
LEMMA ReadKeepsRun ==
  ASSUME TypeOK, NEW n \in ReadLens, Read(n),
         receive_ready = Bytes(app_next, Len(receive_ready))
  PROVE  /\ result' \in 1 .. Len(receive_ready)
         /\ app_next' = SeqAdd(app_next, result')
         /\ receive_ready' = Bytes(app_next', Len(receive_ready'))
         /\ SeqAdd(app_next', Len(receive_ready')) = SeqAdd(app_next, Len(receive_ready))
<1> DEFINE copy_len == IF Len(receive_ready) > n THEN n ELSE Len(receive_ready)
           m        == Len(receive_ready)
<1>1. m \in Nat /\ m # 0 /\ n \in Nat /\ n # 0 /\ m < SeqMod /\ app_next \in SeqNum
  BY InputAssumption, EngineAssumption, SeqModFacts, HalfSpaceAssumption, EmptySeq, LenProperties
  DEF Read, TypeOK
<1>2. copy_len \in 1 .. m /\ copy_len \in Nat /\ copy_len <= m
  BY <1>1
<1>3. /\ receive_ready' = SubSeq(receive_ready, copy_len + 1, m)
      /\ app_next' = SeqAdd(receive_ready[copy_len], 1)
      /\ result' = copy_len
  BY DEF Read
<1> HIDE DEF copy_len
<1>4. app_next' = SeqAdd(app_next, copy_len)
  <2>1. receive_ready[copy_len] = SeqAdd(app_next, copy_len - 1)
    BY <1>1, <1>2, BytesType
  <2>2. copy_len - 1 \in Nat /\ (copy_len - 1) + 1 <= SeqMod
    BY <1>1, <1>2, SeqModFacts
  <2>3. SeqAdd(SeqAdd(app_next, copy_len - 1), 1) = SeqAdd(app_next, (copy_len - 1) + 1)
    BY <1>1, <2>2, SeqAddAdd
  <2>4. (copy_len - 1) + 1 = copy_len
    BY <1>2
  <2> QED
    BY <1>3, <2>1, <2>3, <2>4
<1>5. receive_ready' = Bytes(app_next', m - copy_len)
  <2>1. SubSeq(Bytes(app_next, m), copy_len + 1, m) = Bytes(SeqAdd(app_next, copy_len), m - copy_len)
    BY <1>1, <1>2, BytesDrop
  <2> QED
    BY <1>3, <1>4, <2>1
<1>6. m - copy_len \in Nat /\ app_next' \in SeqNum
  BY <1>1, <1>2, <1>4, SeqClosed
<1>7. Len(receive_ready') = m - copy_len
  BY <1>5, <1>6, BytesType
<1>8. SeqAdd(app_next', m - copy_len) = SeqAdd(app_next, m)
  <2>1. copy_len + (m - copy_len) = m /\ m <= SeqMod
    BY <1>1, <1>2, SeqModFacts
  <2> QED
    BY <1>1, <1>2, <1>4, <1>6, <2>1, SeqAddAdd
<1> QED
  BY <1>2, <1>3, <1>4, <1>5, <1>7, <1>8

\* What is left after a read is the rest of the run.
LEMMA ReadReceive ==
  ASSUME TypeOK, ReceiveInv, NEW n \in ReadLens, Read(n)
  PROVE  ReceiveInv'
<1>1. /\ receive_ready # <<>>
      /\ UNCHANGED <<state, receive_next, reassembly, pc, slot_i, progress, opens, stalled>>
  BY DEF Read, queueVars, callVars
<1>2. StreamIntegrity'
  <2> SUFFICES ASSUME opens = 1, state \in Receiving
               PROVE  /\ receive_ready' = Bytes(app_next', Len(receive_ready'))
                      /\ receive_next' = SeqAdd(app_next', Len(receive_ready'))
    BY <1>1 DEF StreamIntegrity, Bytes
  <2>1. /\ receive_ready = Bytes(app_next, Len(receive_ready))
        /\ receive_next = SeqAdd(app_next, Len(receive_ready))
    BY DEF ReceiveInv, StreamIntegrity
  <2> QED
    BY <1>1, <2>1, ReadKeepsRun
<1>3. SlotsFaithful' /\ CallInOpenState' /\ ScannedSlotsAreFuture'
  BY <1>1 DEF ReceiveInv, SlotsFaithful, CallInOpenState, ScannedSlotsAreFuture, FutureSlot
<1>4. EmptyBeforeHandshake'
  BY <1>1 DEF ReceiveInv, EmptyBeforeHandshake
<1> QED
  BY <1>2, <1>3, <1>4 DEF ReceiveInv

\* Nor do RST, the handshake and segments that only acknowledge.
LEMMA RecvControlReceive ==
  ASSUME TypeOK, ReceiveInv, NEW s \in AnySegment
  PROVE  /\ RecvRst(s) => ReceiveInv'
         /\ Handshake(s) => ReceiveInv'
         /\ RecvAckOnly(s) => ReceiveInv'
<1>1. ASSUME RecvRst(s) PROVE ReceiveInv'
  <2>1. /\ state' = "RESET" /\ receive_ready' = <<>> /\ pc' = "idle" /\ opens' = opens
        /\ \A i \in Slots : reassembly'[i].used = 0
    BY <1>1 DEF RecvRst, callVars, FreeSlot
  <2> QED
    BY <2>1 DEF ReceiveInv, SlotsFaithful, CallInOpenState, EmptyBeforeHandshake, StreamIntegrity,
                ScannedSlotsAreFuture
<1>2. ASSUME Handshake(s) PROVE ReceiveInv'
  <2>1. /\ state = "SYN_SENT" /\ state' = "ESTABLISHED" /\ pc = "idle"
        /\ receive_next' = SeqAdd(s.seq, 1) /\ app_next' = SeqAdd(s.seq, 1)
        /\ UNCHANGED <<reassembly, receive_ready, pc, slot_i, progress, opens, stalled>>
    BY <1>2 DEF Handshake, queueVars, callVars
  <2>2. opens # 0
    BY <2>1 DEF ReceiveInv, EmptyBeforeHandshake
  <2>3. opens = 1 => receive_ready = <<>> /\ \A i \in Slots : reassembly[i].used = 0
    BY <2>1 DEF ReceiveInv, EmptyBeforeHandshake
  <2>4. StreamIntegrity'
    <3> SUFFICES ASSUME opens = 1
                 PROVE  /\ receive_ready' = Bytes(app_next', Len(receive_ready'))
                        /\ receive_next' = SeqAdd(app_next', Len(receive_ready'))
      BY <2>1 DEF StreamIntegrity, Bytes
    <3>1. receive_ready' = <<>> /\ Len(receive_ready') = 0
      BY <2>1, <2>3, EmptySeq
    <3>2. app_next' \in SeqNum
      BY <2>1, SeqClosed DEF AnySegment
    <3>3. Bytes(app_next', 0) \in Seq(SeqNum) /\ Len(Bytes(app_next', 0)) = 0
      BY <3>2, BytesType
    <3>4. Bytes(app_next', 0) = <<>>
      BY <3>3, EmptySeq
    <3>5. SeqAdd(app_next', 0) = app_next'
      BY <3>2, SeqAddZero
    <3> QED
      BY <2>1, <3>1, <3>4, <3>5
  <2>5. ScannedSlotsAreFuture'
    BY <2>1, <2>3 DEF ScannedSlotsAreFuture, FutureSlot
  <2> QED
    BY <2>1, <2>2, <2>4, <2>5 DEF ReceiveInv, SlotsFaithful, CallInOpenState, EmptyBeforeHandshake
<1>3. ASSUME RecvAckOnly(s) PROVE ReceiveInv'
  BY <1>3, QuietStep
  DEF RecvAckOnly, receiveVars, queueVars, callVars, ReceiveInv, EmptyBeforeHandshake
<1> QED
  BY <1>1, <1>2, <1>3

\* In a state that takes data the connection has been opened.
LEMMA OpenedInDataState ==
  ASSUME ReceiveInv, state \in DataStates \cup {"TIME_WAIT"}
  PROVE  opens # 0
BY DEF ReceiveInv, EmptyBeforeHandshake

\* The common append of process_payload and promote_reassembly.
LEMMA AppendKeepsIntegrity ==
  ASSUME TypeOK, StreamIntegrity, opens = 1, state \in Receiving,
         NEW q \in SeqNum, NEW n \in Nat, n < HalfSpace,
         ~seq_le(SeqAdd(q, n), receive_next), ~seq_gt(q, receive_next),
         receive_ready' = receive_ready \o Clip(Bytes(q, n), SeqSub(receive_next, q)),
         receive_next' = SeqAdd(receive_next, n - SeqSub(receive_next, q)),
         app_next' = app_next
  PROVE  /\ receive_ready' = Bytes(app_next', Len(receive_ready'))
         /\ receive_next' = SeqAdd(app_next', Len(receive_ready'))
<1> DEFINE m       == Len(receive_ready)
           overlap == SeqSub(receive_next, q)
           new_len == n - overlap
<1>1. /\ m \in Nat /\ m < HalfSpace /\ n < SeqMod
      /\ app_next \in SeqNum /\ receive_next \in SeqNum
  BY LenProperties, EngineAssumption, HalfSpaceAssumption, SeqModFacts DEF TypeOK
<1>2. receive_ready = Bytes(app_next, m) /\ receive_next = SeqAdd(app_next, m)
  BY DEF StreamIntegrity
<1>3. overlap \in Nat /\ overlap < n /\ SeqAdd(q, overlap) = receive_next
  BY <1>1, OverlapInRange
<1>4. /\ receive_ready' = receive_ready \o Clip(Bytes(q, n), overlap)
      /\ receive_next' = SeqAdd(receive_next, new_len)
  OBVIOUS
<1> HIDE DEF m, overlap
<1>5. new_len \in Nat /\ m + new_len < SeqMod /\ m + new_len <= SeqMod /\ overlap <= n
  BY <1>1, <1>3, SeqModFacts, HalfSpaceAssumption
<1>6. Clip(Bytes(q, n), overlap) = Bytes(receive_next, new_len)
  <2>1. Len(Bytes(q, n)) = n
    BY BytesType
  <2>2. SubSeq(Bytes(q, n), overlap + 1, n) = Bytes(SeqAdd(q, overlap), n - overlap)
    BY <1>1, <1>3, <1>5, BytesDrop
  <2> QED
    BY <1>3, <2>1, <2>2 DEF Clip
<1> HIDE DEF new_len
<1>7. Bytes(app_next, m) \o Bytes(SeqAdd(app_next, m), new_len) = Bytes(app_next, m + new_len)
  BY <1>1, <1>5, BytesConcat
<1>8. receive_ready' = Bytes(app_next, m + new_len)
  BY <1>2, <1>4, <1>6, <1>7
<1>9. Len(receive_ready') = m + new_len
  BY <1>1, <1>5, <1>8, BytesType
<1>10. receive_next' = SeqAdd(app_next, m + new_len)
  BY <1>1, <1>2, <1>4, <1>5, SeqAddAdd
<1> QED
  BY <1>8, <1>9, <1>10

\* process_payload: old, buffered, refused and in-order segments keep it.
LEMMA RecvDataReceive ==
  ASSUME TypeOK, ReceiveInv, NEW s \in AnySegment
  PROVE  /\ RecvNothingNew(s) => ReceiveInv'
         /\ buffer_future_payload(s) => ReceiveInv'
         /\ RecvNoCapacity(s) => ReceiveInv'
         /\ RecvInOrder(s) => ReceiveInv'
<1>1. ASSUME RecvNothingNew(s) PROVE ReceiveInv'
  <2>1. /\ pc = "idle" /\ pc' = "fin" /\ state \in DataStates
        /\ UNCHANGED <<state, receive_next, reassembly, receive_ready, app_next, opens, stalled>>
    BY <1>1 DEF RecvNothingNew, DataGuard, continue, RecvFrame, queueVars
  <2> QED
    BY <2>1 DEF ReceiveInv, SlotsFaithful, CallInOpenState, EmptyBeforeHandshake, StreamIntegrity,
                ScannedSlotsAreFuture, FutureSlot, Bytes
<1>2. ASSUME buffer_future_payload(s) PROVE ReceiveInv'
  <2>1. /\ pc = "idle" /\ pc' = "fin" /\ state \in DataStates /\ seq_gt(s.seq, receive_next)
        /\ UNCHANGED <<state, receive_next, receive_ready, app_next, opens, stalled>>
    BY <1>2 DEF buffer_future_payload, DataGuard, Future, continue, RecvFrame
  <2>2. PICK i \in Slots : reassembly' = [reassembly EXCEPT ![i] =
            [used |-> 1, sequence_number |-> s.seq, payload |-> Bytes(s.seq, s.len)]]
    BY <1>2 DEF buffer_future_payload
  <2>3. \A j \in Slots : reassembly'[j] =
          IF j = i THEN [used |-> 1, sequence_number |-> s.seq, payload |-> Bytes(s.seq, s.len)]
                   ELSE reassembly[j]
    BY <2>2 DEF TypeOK
  <2>4. SlotsFaithful'
    <3>1. Len(Bytes(s.seq, s.len)) = s.len
      BY BytesType DEF AnySegment
    <3> SUFFICES ASSUME NEW j \in Slots, reassembly'[j].used = 1
                 PROVE  reassembly'[j].payload =
                          Bytes(reassembly'[j].sequence_number, Len(reassembly'[j].payload))
      BY DEF SlotsFaithful, Bytes
    <3>2. CASE j = i
      BY <2>3, <3>1, <3>2
    <3>3. CASE j # i
      BY <2>3, <3>3 DEF ReceiveInv, SlotsFaithful
    <3> QED
      BY <3>2, <3>3
  <2>5. ScannedSlotsAreFuture'
    BY <2>1, <2>3 DEF ReceiveInv, ScannedSlotsAreFuture, FutureSlot
  <2>6. opens # 0
    BY <2>1, OpenedInDataState
  <2> QED
    BY <2>1, <2>4, <2>5, <2>6
    DEF ReceiveInv, CallInOpenState, EmptyBeforeHandshake, StreamIntegrity, Bytes
<1>3. ASSUME RecvNoCapacity(s) PROVE ReceiveInv'
  <2>1. /\ pc = "idle" /\ pc' = "idle" /\ state \in DataStates
        /\ UNCHANGED <<state, receive_next, reassembly, receive_ready, app_next, opens, stalled>>
    BY <1>3 DEF RecvNoCapacity, DataGuard, return, RecvFrame, queueVars
  <2> QED
    BY <2>1 DEF ReceiveInv, SlotsFaithful, CallInOpenState, EmptyBeforeHandshake, StreamIntegrity,
                ScannedSlotsAreFuture, FutureSlot, Bytes
<1>4. ASSUME RecvInOrder(s) PROVE ReceiveInv'
  <2>1. /\ pc = "idle" /\ pc' = "promote" /\ slot_i' = 1 /\ state \in DataStates
        /\ InOrder(s)
        /\ receive_ready' = receive_ready \o Clip(Bytes(s.seq, s.len), SeqSub(receive_next, s.seq))
        /\ receive_next' = SeqAdd(receive_next, s.len - SeqSub(receive_next, s.seq))
        /\ UNCHANGED <<state, reassembly, app_next, opens, stalled>>
    BY <1>4 DEF RecvInOrder, DataGuard, continue, RecvFrame, queueVars
  <2>2. s.seq \in SeqNum /\ s.len \in Nat /\ s.len < HalfSpace
    BY EngineAssumption, HalfSpaceAssumption DEF AnySegment
  <2>3. ~seq_le(SeqAdd(s.seq, s.len), receive_next) /\ ~seq_gt(s.seq, receive_next)
    BY <2>1 DEF InOrder, Old, PayloadEnd
  <2>4. StreamIntegrity'
    <3> SUFFICES ASSUME opens = 1, state \in Receiving
                 PROVE  /\ receive_ready' = Bytes(app_next', Len(receive_ready'))
                        /\ receive_next' = SeqAdd(app_next', Len(receive_ready'))
      BY <2>1 DEF StreamIntegrity, Bytes
    <3>1. StreamIntegrity
      BY DEF ReceiveInv
    <3> QED
      BY <2>1, <2>2, <2>3, <3>1, AppendKeepsIntegrity
  <2>5. ScannedSlotsAreFuture'
    BY <2>1 DEF ScannedSlotsAreFuture, Slots
  <2>6. opens # 0
    BY <2>1, OpenedInDataState
  <2> QED
    BY <2>1, <2>4, <2>5, <2>6
    DEF ReceiveInv, SlotsFaithful, CallInOpenState, EmptyBeforeHandshake, Bytes
<1> QED
  BY <1>1, <1>2, <1>3, <1>4

\* Freeing a slot leaves the others alone.
LEMMA RemoveSlot ==
  ASSUME TypeOK, NEW i \in Slots, remove_reassembly_slot(i)
  PROVE  \A j \in Slots : reassembly'[j] = IF j = i THEN FreeSlot ELSE reassembly[j]
BY DEF TypeOK, remove_reassembly_slot

\* Freeing a slot keeps the contents of the others faithful.
LEMMA RemoveFaithful ==
  ASSUME TypeOK, SlotsFaithful, NEW i \in Slots, remove_reassembly_slot(i)
  PROVE  SlotsFaithful'
<1> SUFFICES ASSUME NEW j \in Slots, reassembly'[j].used = 1
             PROVE  reassembly'[j].payload =
                      Bytes(reassembly'[j].sequence_number, Len(reassembly'[j].payload))
  BY DEF SlotsFaithful, Bytes
<1>1. j # i
  BY RemoveSlot DEF FreeSlot
<1>2. reassembly'[j] = reassembly[j]
  BY <1>1, RemoveSlot
<1> QED
  BY <1>2 DEF SlotsFaithful

\* Each step of promote_reassembly keeps it.
LEMMA PromoteReceive ==
  ASSUME TypeOK, ReceiveInv, Promote
  PROVE  ReceiveInv'
<1>1. pc = "promote" /\ state \in DataStates \cup {"TIME_WAIT"} /\ opens # 0
  <2>1. pc = "promote"
    BY DEF Promote, PromoteSkip, PromoteObsolete, PromoteDeliver, PromoteNoCapacity, PromoteRescan,
           PromoteDone, Scanning
  <2> QED
    BY <2>1, OpenedInDataState DEF ReceiveInv, CallInOpenState
<1>2. CASE PromoteSkip
  <2>1. /\ slot_i \in Slots /\ slot_i' = slot_i + 1
        /\ UNCHANGED <<state, receive_next, reassembly, receive_ready, pc, progress, app_next, opens, stalled>>
        /\ ~Obsolete(reassembly[slot_i]) /\ ~Contiguous(reassembly[slot_i])
    BY <1>2, EngineAssumption DEF PromoteSkip, Scanning, ScanFrame, queueVars, TypeOK, Slots
  <2>2. FutureSlot(slot_i)
    BY <2>1 DEF FutureSlot, Contiguous
  <2>3. ScannedSlotsAreFuture'
    <3>1. ASSUME NEW j \in Slots, j < slot_i + 1, \A i \in Slots : i < slot_i => FutureSlot(i)
          PROVE  FutureSlot(j)
      BY <2>1, <2>2, <3>1 DEF Slots
    <3> QED
      BY <1>1, <2>1, <3>1 DEF ReceiveInv, ScannedSlotsAreFuture, FutureSlot
  <2> QED
    BY <2>1, <2>3
    DEF ReceiveInv, SlotsFaithful, CallInOpenState, EmptyBeforeHandshake, StreamIntegrity, Bytes
<1>3. CASE PromoteObsolete
  <2>1. /\ slot_i \in Slots /\ progress' = 1 /\ remove_reassembly_slot(slot_i)
        /\ UNCHANGED <<state, receive_next, receive_ready, pc, app_next, opens, stalled>>
    BY <1>3, EngineAssumption DEF PromoteObsolete, Scanning, ScanFrame, TypeOK, Slots
  <2>2. SlotsFaithful'
    BY <2>1, RemoveFaithful DEF ReceiveInv
  <2> QED
    BY <1>1, <2>1, <2>2
    DEF ReceiveInv, CallInOpenState, EmptyBeforeHandshake, StreamIntegrity, ScannedSlotsAreFuture, Bytes
<1>4. CASE PromoteDeliver
  <2> DEFINE slot == reassembly[slot_i]
             q    == slot.sequence_number
             n    == Len(slot.payload)
  <2>1. /\ slot_i \in Slots /\ progress' = 1 /\ remove_reassembly_slot(slot_i)
        /\ Contiguous(slot)
        /\ receive_ready' = receive_ready \o Clip(slot.payload, SeqSub(receive_next, q))
        /\ receive_next' = SeqAdd(receive_next, n - SeqSub(receive_next, q))
        /\ UNCHANGED <<state, pc, app_next, opens, stalled>>
    BY <1>4, EngineAssumption DEF PromoteDeliver, Scanning, ScanFrame, TypeOK, Slots, NewLen
  <2>2. SlotsFaithful'
    BY <2>1, RemoveFaithful DEF ReceiveInv
  <2>3. /\ q \in SeqNum /\ n \in Nat /\ n < HalfSpace
        /\ ~seq_le(SeqAdd(q, n), receive_next) /\ ~seq_gt(q, receive_next)
    BY <2>1, SlotOverlap DEF SlotEnd
  <2>4. slot.payload = Bytes(q, n)
    BY <2>1 DEF ReceiveInv, SlotsFaithful, Contiguous
  <2> HIDE DEF slot, q, n
  <2>5. StreamIntegrity'
    <3> SUFFICES ASSUME opens = 1, state \in Receiving
                 PROVE  /\ receive_ready' = Bytes(app_next', Len(receive_ready'))
                        /\ receive_next' = SeqAdd(app_next', Len(receive_ready'))
      BY <2>1 DEF StreamIntegrity, Bytes
    <3>1. StreamIntegrity
      BY DEF ReceiveInv
    <3> QED
      BY <2>1, <2>3, <2>4, <3>1, AppendKeepsIntegrity
  <2> QED
    BY <1>1, <2>1, <2>2, <2>5
    DEF ReceiveInv, CallInOpenState, EmptyBeforeHandshake, ScannedSlotsAreFuture
<1>5. CASE PromoteNoCapacity
  <2>1. /\ pc' = "idle" /\ stalled' = 1
        /\ UNCHANGED <<state, receive_next, reassembly, receive_ready, app_next, opens>>
    BY <1>5 DEF PromoteNoCapacity, return, queueVars
  <2> QED
    BY <2>1 DEF ReceiveInv, SlotsFaithful, CallInOpenState, EmptyBeforeHandshake, StreamIntegrity,
                ScannedSlotsAreFuture, Bytes
<1>6. CASE PromoteRescan
  <2>1. /\ slot_i' = 1 /\ pc' = "promote"
        /\ UNCHANGED <<state, receive_next, reassembly, receive_ready, pc, app_next, opens, stalled>>
    BY <1>1, <1>6 DEF PromoteRescan, ScanFrame, queueVars
  <2>2. ScannedSlotsAreFuture'
    BY <2>1 DEF ScannedSlotsAreFuture, Slots
  <2> QED
    BY <2>1, <2>2
    DEF ReceiveInv, SlotsFaithful, CallInOpenState, EmptyBeforeHandshake, StreamIntegrity, Bytes
<1>7. CASE PromoteDone
  <2> DEFINE r == consume_pending_fin(Receiver)
  <2>1. /\ slot_i > SlotCount /\ progress = 0 /\ pc' = "fin"
        /\ receive_next' = r.next /\ state' = r.state
        /\ UNCHANGED <<reassembly, receive_ready, app_next, opens>>
    BY <1>7 DEF PromoteDone, SetReceiver, queueVars
  <2>2. /\ r.state \in DataStates \cup {"TIME_WAIT"}
        /\ r.state \in Receiving => r.state = state /\ r.next = receive_next
    BY <1>1 DEF consume_pending_fin, Receiver, AfterFin
  <2> HIDE DEF r
  <2>3. ScannedSlotsAreFuture'
    <3>1. \A i \in Slots : i < slot_i
      BY <2>1, EngineAssumption DEF Slots, TypeOK
    <3> QED
      BY <1>1, <2>1, <2>2, <3>1 DEF ReceiveInv, ScannedSlotsAreFuture, FutureSlot
  <2>4. StreamIntegrity'
    BY <2>1, <2>2 DEF ReceiveInv, StreamIntegrity, Bytes
  <2> QED
    BY <1>1, <2>1, <2>2, <2>3, <2>4
    DEF ReceiveInv, SlotsFaithful, CallInOpenState, EmptyBeforeHandshake, Bytes
<1> QED
  BY <1>2, <1>3, <1>4, <1>5, <1>6, <1>7 DEF Promote

\* process_fin and the end of on_segment keep it.
LEMMA FinishReceive ==
  ASSUME TypeOK, ReceiveInv, FinishSegment
  PROVE  ReceiveInv'
<1> DEFINE p == process_fin(Receiver, fin_flag, fin_sequence)
           r == consume_pending_fin(p)
<1>1. /\ pc = "fin" /\ pc' = "idle"
      /\ receive_next' = r.next /\ state' = AfterAck(r.state)
      /\ UNCHANGED <<reassembly, receive_ready, app_next, opens, stalled>>
  BY DEF FinishSegment, SetReceiver, return, queueVars
<1>2. state \in DataStates \cup {"TIME_WAIT"} /\ opens # 0
  BY <1>1, OpenedInDataState DEF ReceiveInv, CallInOpenState
<1>3. /\ p.state \in DataStates \cup {"TIME_WAIT"}
      /\ p.state \in Receiving => p.state = state /\ p.next = receive_next
  BY <1>2 DEF process_fin, Receiver, AfterFin
<1> HIDE DEF p
<1>4. /\ r.state \in DataStates \cup {"TIME_WAIT"}
      /\ r.state \in Receiving => r.state = p.state /\ r.next = p.next
  BY <1>3 DEF consume_pending_fin, AfterFin
<1> HIDE DEF r
<1>5. state' \in Receiving => state \in Receiving /\ receive_next' = receive_next
  BY <1>1, <1>3, <1>4 DEF AfterAck
<1>6. ScannedSlotsAreFuture'
  BY <1>1, <1>5 DEF ReceiveInv, ScannedSlotsAreFuture, FutureSlot
<1>7. StreamIntegrity'
  BY <1>1, <1>5 DEF ReceiveInv, StreamIntegrity, Bytes
<1>8. state' # "SYN_SENT"
  BY <1>1, <1>4 DEF AfterAck
<1> QED
  BY <1>1, <1>2, <1>6, <1>7, <1>8
  DEF ReceiveInv, SlotsFaithful, CallInOpenState, EmptyBeforeHandshake, Bytes

\* Every step keeps the receive invariant.
LEMMA ReceiveStep == TypeOK /\ ReceiveInv /\ [Next]_vars => ReceiveInv'
<1> SUFFICES ASSUME TypeOK, ReceiveInv, [Next]_vars PROVE ReceiveInv'
  OBVIOUS
<1>1. CASE BuildSyn \/ BuildFin \/ \E n \in DataLens : BuildData(n)
  BY <1>1, BuildReceive
<1>2. CASE \E ms \in Ticks : Tick(ms)
  BY <1>2, TickReceive
<1>3. CASE \E n \in ReadLens : Read(n)
  BY <1>3, ReadReceive
<1>4. CASE \E s \in Segment : OnSegment(s)
  BY <1>4, InputAssumption, RecvControlReceive, RecvDataReceive DEF OnSegment
<1>5. CASE Continue
  BY <1>5, PromoteReceive, FinishReceive DEF Continue
<1>6. CASE UNCHANGED vars
  <2>1. UNCHANGED receiveVars /\ UNCHANGED opens /\ UNCHANGED state
    BY <1>6 DEF vars, receiveVars, queueVars, callVars
  <2>2. opens = 0 => state \in {"CLOSED", "RESET"}
    BY DEF ReceiveInv, EmptyBeforeHandshake
  <2> QED
    BY <2>1, <2>2, QuietStep
<1> QED
  BY <1>1, <1>2, <1>3, <1>4, <1>5, <1>6 DEF Next

\* The receive invariant holds of every behaviour of the engine.
THEOREM ReceiveInvariant == Spec => []ReceiveInv
<1>1. Init /\ [][Next]_vars /\ []TypeOK => []ReceiveInv
  BY ReceiveInit, ReceiveStep, PTL
<1> QED
  BY <1>1, TypeCorrect, PTL DEF Spec

\* Whatever the network delivers, the application reads the peer's bytes in
\* order, each exactly once, and the ready buffer ends at receive_next: for
\* every size of the sequence space, the slots and the ready buffer.
THEOREM StreamIntegrityHolds == Spec => []StreamIntegrity
<1>1. ReceiveInv => StreamIntegrity
  BY DEF ReceiveInv
<1> QED
  BY <1>1, ReceiveInvariant, PTL

\* promote_reassembly's rescan is enough: between calls, unless the ready
\* buffer was full, no buffered segment could be delivered.
THEOREM NoStrandedSegmentHolds == Spec => []NoStrandedSegment
<1>1. ReceiveInv => NoStrandedSegment
  BY DEF ReceiveInv, ScannedSlotsAreFuture, FutureSlot, NoStrandedSegment
<1> QED
  BY <1>1, ReceiveInvariant, PTL
-----------------------------------------------------------------------------
(***************************************************************************)
(* The slot counter.                                                       *)
(***************************************************************************)
UsedSlots == {i \in Slots : reassembly[i].used = 1}

\* The slots in use can be counted.
LEMMA UsedSlotsFinite == IsFiniteSet(UsedSlots) /\ Cardinality(UsedSlots) \in Nat
<1>1. IsFiniteSet(Slots)
  BY FS_Interval, EngineAssumption DEF Slots
<1>2. UsedSlots \in SUBSET Slots
  BY DEF UsedSlots
<1> QED
  BY <1>1, <1>2, FS_Subset, FS_CardinalityType

\* A step that leaves the queue alone keeps the count right.
LEMMA AccountingKept ==
  ASSUME ReassemblyAccounting, UNCHANGED queueVars
  PROVE  ReassemblyAccounting'
BY DEF ReassemblyAccounting, queueVars

\* remove_reassembly_slot takes one slot and one from the count.
LEMMA RemoveAccounting ==
  ASSUME TypeOK, ReassemblyAccounting, NEW i \in Slots, reassembly[i].used = 1,
         remove_reassembly_slot(i)
  PROVE  ReassemblyAccounting'
<1>1. reassembly_count = Cardinality(UsedSlots)
  BY DEF ReassemblyAccounting, UsedSlots
<1>2. UsedSlots' = UsedSlots \ {i}
  BY RemoveSlot DEF UsedSlots, FreeSlot
<1>3. i \in UsedSlots
  BY DEF UsedSlots
<1>4. Cardinality(UsedSlots \ {i}) = Cardinality(UsedSlots) - 1
  BY <1>3, UsedSlotsFinite, FS_RemoveElement
<1>5. Cardinality(UsedSlots) # 0
  BY <1>3, UsedSlotsFinite, FS_EmptySet
<1>6. reassembly_count' = reassembly_count - 1
  BY <1>1, <1>5, UsedSlotsFinite DEF remove_reassembly_slot
<1> QED
  BY <1>1, <1>2, <1>4, <1>6 DEF ReassemblyAccounting, UsedSlots

\* Every step keeps the count of the slots in use right.
LEMMA AccountingStep == TypeOK /\ ReassemblyAccounting /\ [Next]_vars => ReassemblyAccounting'
<1> SUFFICES ASSUME TypeOK, ReassemblyAccounting, [Next]_vars PROVE ReassemblyAccounting'
  OBVIOUS
<1>1. CASE BuildSyn \/ BuildFin \/ \E n \in DataLens : BuildData(n)
  BY <1>1, AccountingKept DEF BuildSyn, BuildFin, BuildData, Emit
<1>2. CASE \E ms \in Ticks : Tick(ms)
  BY <1>2, AccountingKept DEF Tick, TickWait, TickRetransmit, TickGiveUp, TickFrame
<1>3. CASE \E n \in ReadLens : Read(n)
  BY <1>3, AccountingKept DEF Read
<1>4. ASSUME NEW s \in Segment, OnSegment(s) PROVE ReassemblyAccounting'
  <2>1. CASE RecvRst(s)
    <3>1. {i \in Slots : reassembly'[i].used = 1} = {}
      BY <2>1 DEF RecvRst, FreeSlot
    <3>2. reassembly_count' = 0
      BY <2>1 DEF RecvRst
    <3> QED
      BY <3>1, <3>2, FS_EmptySet DEF ReassemblyAccounting
  <2>2. CASE buffer_future_payload(s)
    <3>1. PICK i \in Slots :
            /\ find_free_reassembly_slot(i)
            /\ reassembly' = [reassembly EXCEPT ![i] =
                 [used |-> 1, sequence_number |-> s.seq, payload |-> Bytes(s.seq, s.len)]]
      BY <2>2 DEF buffer_future_payload
    <3>2. reassembly_count' = reassembly_count + 1
      BY <2>2 DEF buffer_future_payload
    <3>3. UsedSlots' = UsedSlots \cup {i}
      BY <3>1 DEF UsedSlots, TypeOK
    <3>4. i \notin UsedSlots
      BY <3>1 DEF UsedSlots, find_free_reassembly_slot
    <3>5. Cardinality(UsedSlots \cup {i}) = Cardinality(UsedSlots) + 1
      BY <3>4, UsedSlotsFinite, FS_AddElement
    <3> QED
      BY <3>2, <3>3, <3>5 DEF ReassemblyAccounting, UsedSlots
  <2>3. CASE Handshake(s) \/ RecvAckOnly(s) \/ RecvNothingNew(s) \/ RecvNoCapacity(s) \/ RecvInOrder(s)
    BY <2>3, AccountingKept
    DEF Handshake, RecvAckOnly, RecvNothingNew, RecvNoCapacity, RecvInOrder
  <2> QED
    BY <1>4, <2>1, <2>2, <2>3 DEF OnSegment
<1>5. CASE Continue
  <2>1. CASE PromoteObsolete \/ PromoteDeliver
    <3>1. slot_i \in Slots /\ reassembly[slot_i].used = 1 /\ remove_reassembly_slot(slot_i)
      BY <2>1, EngineAssumption
      DEF PromoteObsolete, PromoteDeliver, Scanning, Obsolete, Contiguous, TypeOK, Slots
    <3> QED
      BY <3>1, RemoveAccounting
  <2>2. CASE PromoteSkip \/ PromoteNoCapacity \/ PromoteRescan \/ PromoteDone \/ FinishSegment
    BY <2>2, AccountingKept
    DEF PromoteSkip, PromoteNoCapacity, PromoteRescan, PromoteDone, FinishSegment
  <2> QED
    BY <1>5, <2>1, <2>2 DEF Continue, Promote
<1>6. CASE UNCHANGED vars
  BY <1>6, AccountingKept DEF vars
<1> QED
  BY <1>1, <1>2, <1>3, <1>4, <1>5, <1>6 DEF Next

\* reassembly_count is the number of used slots at every step, so
\* tcp_connection_reassembly_count never lies and the counter's guard in
\* remove_reassembly_slot never hides an underflow.
THEOREM ReassemblyAccountingHolds == Spec => []ReassemblyAccounting
<1>1. Init => ReassemblyAccounting
  <2> SUFFICES ASSUME Init PROVE ReassemblyAccounting
    OBVIOUS
  <2>1. {i \in Slots : reassembly[i].used = 1} = {}
    BY DEF Init, FreeSlot
  <2> QED
    BY <2>1, FS_EmptySet DEF Init, ReassemblyAccounting
<1>2. Init /\ [][Next]_vars /\ []TypeOK => []ReassemblyAccounting
  BY <1>1, AccountingStep, PTL
<1> QED
  BY <1>2, TypeCorrect, PTL DEF Spec
-----------------------------------------------------------------------------
(***************************************************************************)
(* The send path.                                                          *)
(***************************************************************************)
\* The segment kept for retransmission occupies a short, nonempty range that
\* ends at send_next and in which send_unacknowledged lies.
ArmedSegment ==
  has_retransmit_segment = 1 =>
    /\ SpaceUsed(last_segment) > 0 /\ SpaceUsed(last_segment) < HalfSpace
    /\ send_next = SeqAdd(last_segment.seq, SpaceUsed(last_segment))
    /\ SeqSub(send_unacknowledged, last_segment.seq) < SpaceUsed(last_segment)

Disarmed == (has_retransmit_segment = 0 /\ state # "RESET") => send_unacknowledged = send_next

\* Both ways into RESET drop the segment.
ResetIsDisarmed == state = "RESET" => has_retransmit_segment = 0

SendInv == ResetIsDisarmed /\ ArmedSegment /\ Disarmed /\ FreshRetryBudget /\ CloseMeansAcknowledged

\* A segment uses a natural number of sequence numbers.
LEMMA SpaceUsedType == \A s \in AnySegment : SpaceUsed(s) \in Nat
BY DEF AnySegment, SpaceUsed

\* The part of the armed segment that is not acknowledged yet.
LEMMA OpenWindow ==
  ASSUME TypeOK, ArmedSegment, has_retransmit_segment = 1
  PROVE  LET d == SeqSub(send_unacknowledged, last_segment.seq)
             w == SpaceUsed(last_segment) - d
         IN  /\ d \in Nat /\ w \in Nat /\ w > 0 /\ w < HalfSpace
             /\ send_unacknowledged = SeqAdd(last_segment.seq, d)
             /\ send_next = SeqAdd(send_unacknowledged, w)
             /\ send_unacknowledged # send_next
<1> DEFINE l == last_segment.seq
           n == SpaceUsed(last_segment)
           d == SeqSub(send_unacknowledged, l)
           w == n - d
<1>1. l \in SeqNum /\ n \in Nat /\ send_unacknowledged \in SeqNum
  BY SpaceUsedType DEF TypeOK, AnySegment
<1>2. n > 0 /\ n < HalfSpace /\ send_next = SeqAdd(l, n) /\ d < n
  BY DEF ArmedSegment
<1>3. d \in Nat
  <2>1. d \in SeqNum
    BY <1>1, SeqClosed
  <2> QED
    BY <2>1, SeqModFacts DEF SeqNum
<1>4. send_unacknowledged = SeqAdd(l, d)
  BY <1>1, SeqSubInverse
<1> HIDE DEF n, d, l
<1>5. w \in Nat /\ w > 0 /\ w < HalfSpace /\ w < SeqMod /\ d + w = n /\ n <= SeqMod
  BY <1>1, <1>2, <1>3, HalfSpaceAssumption, SeqModFacts
<1> HIDE DEF w
<1>6. send_next = SeqAdd(send_unacknowledged, w)
  BY <1>1, <1>2, <1>3, <1>4, <1>5, SeqAddAdd
<1>7. send_unacknowledged # send_next
  BY <1>1, <1>5, <1>6, SeqAddMoves
<1> QED
  BY <1>3, <1>4, <1>5, <1>6, <1>7 DEF w, d, n, l

\* An emitted segment is the armed one.
LEMMA EmitSend ==
  ASSUME TypeOK, NEW s \in AnySegment, s.seq = send_next, Emit(s),
         SpaceUsed(s) > 0, SpaceUsed(s) < HalfSpace,
         state' \notin {"CLOSED", "FIN_WAIT_2", "RESET"}
  PROVE  SendInv'
<1>1. SpaceUsed(s) \in Nat /\ SpaceUsed(s) < SeqMod /\ send_next \in SeqNum
  BY SpaceUsedType, SeqModFacts, HalfSpaceAssumption DEF TypeOK
<1>2. /\ last_segment' = s /\ has_retransmit_segment' = 1
      /\ send_unacknowledged' = send_next /\ send_next' = SeqAdd(send_next, SpaceUsed(s))
  BY DEF Emit, remember_for_retransmission
<1>3. SeqSub(send_next, send_next) = 0
  BY <1>1, SeqSubLinear DEF SeqNum
<1>4. SeqAdd(send_next, SpaceUsed(s)) # send_next
  BY <1>1, SeqAddMoves
<1>5. ArmedSegment'
  BY <1>2, <1>3 DEF ArmedSegment
<1> QED
  BY <1>2, <1>4, <1>5 DEF SendInv, ResetIsDisarmed, Disarmed, FreshRetryBudget, CloseMeansAcknowledged

\* Building a segment makes it the outstanding one.
LEMMA BuildSend ==
  ASSUME TypeOK
  PROVE  /\ BuildSyn => SendInv'
         /\ BuildFin => SendInv'
         /\ \A n \in DataLens : BuildData(n) => SendInv'
<1>1. ASSUME BuildSyn PROVE SendInv'
  <2> DEFINE s == [seq |-> send_next, ack |-> 0, flags |-> {"SYN"}, len |-> 0]
  <2>1. s \in AnySegment
    BY EngineAssumption, SeqModFacts DEF TypeOK, AnySegment, Flag, SeqNum
  <2>2. Emit(s) /\ state' = "SYN_SENT" /\ SpaceUsed(s) = 1 /\ s.seq = send_next
    BY <1>1 DEF BuildSyn, SpaceUsed
  <2> HIDE DEF s
  <2> QED
    BY <2>1, <2>2, EmitSend, HalfSpaceAssumption
<1>2. ASSUME BuildFin PROVE SendInv'
  <2> DEFINE s == [seq |-> send_next, ack |-> receive_next, flags |-> {"FIN", "ACK"}, len |-> 0]
  <2>1. s \in AnySegment
    BY EngineAssumption DEF TypeOK, AnySegment, Flag
  <2>2. Emit(s) /\ state' \in {"LAST_ACK", "FIN_WAIT_1"} /\ SpaceUsed(s) = 1 /\ s.seq = send_next
    BY <1>2 DEF BuildFin, SpaceUsed
  <2> HIDE DEF s
  <2> QED
    BY <2>1, <2>2, EmitSend, HalfSpaceAssumption
<1>3. ASSUME NEW n \in DataLens, BuildData(n) PROVE SendInv'
  <2> DEFINE s == [seq |-> send_next, ack |-> receive_next, flags |-> {"ACK"}, len |-> n]
  <2>1. s \in AnySegment /\ n > 0 /\ n < HalfSpace /\ n \in Nat
    BY InputAssumption, EngineAssumption, HalfSpaceAssumption DEF TypeOK, AnySegment, Flag
  <2>2. Emit(s) /\ state' = "ESTABLISHED" /\ SpaceUsed(s) = n /\ s.seq = send_next
    BY <1>3, <2>1 DEF BuildData, SpaceUsed
  <2> HIDE DEF s
  <2> QED
    BY <2>1, <2>2, EmitSend
<1> QED
  BY <1>1, <1>2, <1>3

\* tcp_connection_tick changes the timer only, until it gives up.
LEMMA TickSend ==
  ASSUME TypeOK, SendInv, NEW ms \in Ticks, Tick(ms)
  PROVE  SendInv'
<1>1. has_retransmit_segment = 1 /\ UNCHANGED <<send_unacknowledged, send_next, last_segment>>
  BY DEF Tick, TickWait, TickRetransmit, TickGiveUp, TickGuard, TickFrame, sendVars
<1>2. send_unacknowledged # send_next
  BY <1>1, OpenWindow DEF SendInv
<1>3. \/ state' = state /\ has_retransmit_segment' = 1
      \/ state' = "RESET" /\ has_retransmit_segment' = 0
  BY <1>1 DEF Tick, TickWait, TickRetransmit, TickGiveUp
<1>4. ArmedSegment'
  BY <1>1, <1>3 DEF SendInv, ArmedSegment
<1> QED
  BY <1>1, <1>2, <1>3, <1>4
  DEF SendInv, ResetIsDisarmed, Disarmed, FreshRetryBudget, CloseMeansAcknowledged

\* An acknowledgment that advances falls inside the armed segment.
LEMMA AdvanceWithinSegment ==
  ASSUME TypeOK, SendInv, state # "RESET", NEW s \in AnySegment, AckAdvances(s)
  PROVE  /\ has_retransmit_segment = 1
         /\ s.ack # send_next => SeqSub(s.ack, last_segment.seq) < SpaceUsed(last_segment)
<1> DEFINE u == send_unacknowledged
           a == s.ack
<1>1. u \in SeqNum /\ a \in SeqNum /\ send_next \in SeqNum /\ seq_gt(a, u) /\ seq_le(a, send_next)
  BY DEF TypeOK, AnySegment, AckAdvances
<1>2. has_retransmit_segment = 1
  <2> SUFFICES ASSUME has_retransmit_segment = 0 PROVE FALSE
    BY DEF TypeOK
  <2>1. u = send_next
    BY DEF SendInv, ResetIsDisarmed, Disarmed
  <2>2. SeqSub(a, u) \in SeqNum
    BY <1>1, SeqClosed
  <2>3. SeqSub(a, u) \in Int
    BY <2>2, SeqModFacts DEF SeqNum
  <2> QED
    BY <1>1, <2>1, <2>3, HalfSpaceAssumption DEF seq_gt, seq_le
<1>3. ASSUME a # send_next
      PROVE  SeqSub(a, last_segment.seq) < SpaceUsed(last_segment)
  <2> DEFINE l == last_segment.seq
             n == SpaceUsed(last_segment)
             d == SeqSub(u, l)
             w == n - d
             x == SeqSub(a, u)
  <2>1. l \in SeqNum /\ n \in Nat /\ n < HalfSpace
    BY <1>2, SpaceUsedType DEF TypeOK, AnySegment, SendInv, ArmedSegment
  <2>2. /\ d \in Nat /\ w \in Nat /\ w < HalfSpace
        /\ u = SeqAdd(l, d) /\ send_next = SeqAdd(u, w)
    BY <1>2, OpenWindow DEF SendInv
  <2> HIDE DEF d, w, n, l
  <2>3. /\ x \in Nat /\ 0 < x /\ x <= w /\ a = SeqAdd(u, x)
        /\ (a = SeqAdd(u, w)) <=> (x = w)
    BY <1>1, <2>2, AckInWindow
  <2> HIDE DEF x, a, u
  <2>4. x < w
    BY <1>3, <2>2, <2>3
  <2>5. d + x < n /\ d + x < SeqMod /\ d + x <= SeqMod /\ d + x \in Nat
    BY <2>1, <2>2, <2>3, <2>4, SeqModFacts, HalfSpaceAssumption DEF w
  <2>6. a = SeqAdd(l, d + x)
    BY <2>1, <2>2, <2>3, <2>5, SeqAddAdd
  <2>7. SeqSub(a, l) = d + x
    BY <2>1, <2>5, <2>6, SeqSubAdd
  <2> QED
    BY <2>5, <2>7 DEF a, l, n
<1> QED
  BY <1>2, <1>3

\* An acknowledgment, full, partial, repeated or bogus, keeps the invariant.
LEMMA ProcessAckSend ==
  ASSUME TypeOK, SendInv, NEW s \in AnySegment, ProcessAck(s), state' = state
  PROVE  SendInv'
<1>1. UNCHANGED <<send_next, last_segment>>
  BY DEF ProcessAck
<1>2. CASE ~AckAdvances(s)
  <2>1. UNCHANGED <<send_unacknowledged, timerVars>>
    BY <1>2 DEF ProcessAck
  <2> QED
    BY <1>1, <2>1
    DEF SendInv, ResetIsDisarmed, ArmedSegment, Disarmed, FreshRetryBudget, CloseMeansAcknowledged, timerVars
<1>3. CASE AckAdvances(s) /\ s.ack = send_next
  <2>1. /\ send_unacknowledged' = send_next /\ retransmit_count' = 0
        /\ has_retransmit_segment' = 0 /\ retransmit_timeout' = DefaultRto
    BY <1>3 DEF ProcessAck
  <2> QED
    BY <1>1, <2>1
    DEF SendInv, ResetIsDisarmed, ArmedSegment, Disarmed, FreshRetryBudget, CloseMeansAcknowledged
<1>4. CASE AckAdvances(s) /\ s.ack # send_next
  <2>1. /\ send_unacknowledged' = s.ack /\ retransmit_count' = 0
        /\ UNCHANGED <<has_retransmit_segment, retransmit_timeout>>
    BY <1>4 DEF ProcessAck
  <2>2. CASE state = "RESET"
    <3>1. has_retransmit_segment = 0 => ArmedSegment'
      BY <2>1 DEF ArmedSegment
    <3>2. has_retransmit_segment = 1 => FALSE
      BY <2>2 DEF SendInv, ResetIsDisarmed
    <3> QED
      BY <1>1, <1>4, <2>1, <2>2, <3>1, <3>2
      DEF SendInv, ResetIsDisarmed, Disarmed, FreshRetryBudget, CloseMeansAcknowledged, TypeOK
  <2>3. CASE state # "RESET"
    <3>1. /\ has_retransmit_segment = 1
          /\ SeqSub(s.ack, last_segment.seq) < SpaceUsed(last_segment)
      BY <1>4, <2>3, AdvanceWithinSegment
    <3>2. ArmedSegment'
      BY <1>1, <2>1, <3>1 DEF SendInv, ArmedSegment
    <3>3. send_unacknowledged # send_next
      BY <3>1, OpenWindow DEF SendInv
    <3> QED
      BY <1>1, <1>4, <2>1, <3>1, <3>2, <3>3
      DEF SendInv, ResetIsDisarmed, Disarmed, FreshRetryBudget, CloseMeansAcknowledged
  <2> QED
    BY <2>2, <2>3
<1> QED
  BY <1>2, <1>3, <1>4

\* Steps that leave the send path alone.
LEMMA SendKept ==
  ASSUME SendInv, state' = state, UNCHANGED <<sendVars, timerVars>>
  PROVE  SendInv'
BY DEF SendInv, ResetIsDisarmed, ArmedSegment, Disarmed, FreshRetryBudget, CloseMeansAcknowledged,
       sendVars, timerVars

\* The handshake acknowledges exactly the SYN.
LEMMA HandshakeSend ==
  ASSUME TypeOK, SendInv, NEW s \in AnySegment, Handshake(s)
  PROVE  SendInv'
<1>1. /\ s.ack = send_next /\ {"SYN", "ACK"} \subseteq s.flags /\ state = "SYN_SENT"
      /\ send_unacknowledged' = IF AckAdvances(s) THEN s.ack ELSE send_unacknowledged
      /\ send_next' = send_next /\ last_segment' = last_segment
      /\ state' = "ESTABLISHED" /\ has_retransmit_segment' = 0
      /\ retransmit_count' = 0 /\ retransmit_timeout' = DefaultRto
  BY DEF Handshake
<1>2. send_unacknowledged' = send_next
  <2> SUFFICES ASSUME ~AckAdvances(s) PROVE send_unacknowledged = send_next
    BY <1>1
  <2> SUFFICES ASSUME has_retransmit_segment = 1 PROVE FALSE
    BY <1>1 DEF SendInv, Disarmed, TypeOK
  <2> DEFINE u == send_unacknowledged
             w == SpaceUsed(last_segment) - SeqSub(u, last_segment.seq)
  <2>1. u \in SeqNum /\ send_next \in SeqNum
    BY DEF TypeOK
  <2>2. w \in Nat /\ w > 0 /\ w < HalfSpace /\ send_next = SeqAdd(u, w)
    BY OpenWindow DEF SendInv
  <2> HIDE DEF w, u
  <2>3. w < SeqMod
    BY <2>2, SeqModFacts, HalfSpaceAssumption
  <2>4. SeqSub(send_next, u) = w
    BY <2>1, <2>2, <2>3, SeqSubAdd
  <2>5. seq_gt(s.ack, u)
    BY <1>1, <2>2, <2>4 DEF seq_gt
  <2>6. SeqSub(send_next, send_next) = 0
    BY <2>1, SeqSubLinear DEF SeqNum
  <2>7. seq_le(s.ack, send_next)
    BY <1>1, <2>6 DEF seq_le
  <2> QED
    BY <1>1, <2>5, <2>7 DEF AckAdvances, u
<1> QED
  BY <1>1, <1>2
  DEF SendInv, ResetIsDisarmed, ArmedSegment, Disarmed, FreshRetryBudget, CloseMeansAcknowledged

\* The first step of on_segment, whatever the segment, keeps it.
LEMMA OnSegmentSend ==
  ASSUME TypeOK, SendInv, NEW s \in AnySegment, OnSegment(s)
  PROVE  SendInv'
<1>1. CASE RecvRst(s)
  <2>1. /\ state' = "RESET" /\ has_retransmit_segment' = 0
        /\ UNCHANGED <<send_unacknowledged, send_next, retransmit_timeout, retransmit_count>>
    BY <1>1 DEF RecvRst, sendVars
  <2> QED
    BY <2>1
    DEF SendInv, ResetIsDisarmed, ArmedSegment, Disarmed, FreshRetryBudget, CloseMeansAcknowledged
<1>2. CASE Handshake(s)
  BY <1>2, HandshakeSend
<1>3. CASE \/ RecvAckOnly(s) \/ RecvNothingNew(s) \/ buffer_future_payload(s)
           \/ RecvNoCapacity(s) \/ RecvInOrder(s)
  <2>1. ProcessAck(s) /\ state' = state
    BY <1>3 DEF RecvAckOnly, RecvNothingNew, buffer_future_payload, RecvNoCapacity, RecvInOrder, RecvFrame
  <2> QED
    BY <2>1, ProcessAckSend
<1> QED
  BY <1>1, <1>2, <1>3 DEF OnSegment

\* The rest of on_segment keeps it; LAST_ACK ends only when all is acknowledged.
LEMMA ContinueSend ==
  ASSUME TypeOK, ReceiveInv, SendInv, Continue
  PROVE  SendInv'
<1>1. state \in DataStates \cup {"TIME_WAIT"}
  <2>1. pc # "idle"
    BY DEF Continue, FinishSegment, Promote, PromoteSkip, PromoteObsolete, PromoteDeliver,
           PromoteNoCapacity, PromoteRescan, PromoteDone, Scanning
  <2> QED
    BY <2>1 DEF ReceiveInv, CallInOpenState
<1>2. CASE PromoteSkip \/ PromoteObsolete \/ PromoteDeliver \/ PromoteNoCapacity \/ PromoteRescan
  <2>1. state' = state /\ UNCHANGED <<sendVars, timerVars>>
    BY <1>2 DEF PromoteSkip, PromoteObsolete, PromoteDeliver, PromoteNoCapacity, PromoteRescan, ScanFrame
  <2> QED
    BY <2>1, SendKept
<1>3. CASE PromoteDone
  <2> DEFINE r == consume_pending_fin(Receiver)
  <2>1. state' = r.state /\ UNCHANGED <<sendVars, timerVars>>
    BY <1>3 DEF PromoteDone
  <2>2. /\ r.state \in DataStates \cup {"TIME_WAIT"}
        /\ r.state = "FIN_WAIT_2" => state = "FIN_WAIT_2"
    BY <1>1 DEF consume_pending_fin, Receiver, AfterFin, DataStates
  <2> HIDE DEF r
  <2>3. state # "RESET" /\ state' \notin {"CLOSED", "RESET"} /\ (state' = "FIN_WAIT_2" => state = "FIN_WAIT_2")
    BY <1>1, <2>1, <2>2 DEF DataStates
  <2> QED
    BY <2>1, <2>3
    DEF SendInv, ResetIsDisarmed, ArmedSegment, Disarmed, FreshRetryBudget, CloseMeansAcknowledged,
        sendVars, timerVars
<1>4. CASE FinishSegment
  <2> DEFINE p == process_fin(Receiver, fin_flag, fin_sequence)
             r == consume_pending_fin(p)
  <2>1. /\ state' = AfterAck(r.state)
        /\ has_retransmit_segment' = IF AfterAck(r.state) = "CLOSED" THEN 0 ELSE has_retransmit_segment
        /\ UNCHANGED <<send_unacknowledged, send_next, last_segment, retransmit_timeout, retransmit_count>>
    BY <1>4 DEF FinishSegment, sendVars
  <2>2. /\ p.state \in DataStates \cup {"TIME_WAIT"}
        /\ p.state = "FIN_WAIT_2" => state = "FIN_WAIT_2"
    BY <1>1 DEF process_fin, Receiver, AfterFin, DataStates
  <2> HIDE DEF p
  <2>3. /\ r.state \in DataStates \cup {"TIME_WAIT"}
        /\ r.state = "FIN_WAIT_2" => state = "FIN_WAIT_2"
    BY <2>2 DEF consume_pending_fin, AfterFin, DataStates
  <2> HIDE DEF r
  <2>4. /\ state # "RESET" /\ state' # "RESET"
        /\ state' \in {"CLOSED", "FIN_WAIT_2"} =>
             state = "FIN_WAIT_2" \/ send_unacknowledged = send_next
    BY <1>1, <2>1, <2>3 DEF AfterAck, DataStates
  <2>5. CASE state' = "CLOSED"
    <3>1. send_unacknowledged = send_next
      BY <2>4, <2>5 DEF SendInv, CloseMeansAcknowledged
    <3> QED
      BY <2>1, <2>5, <3>1
      DEF SendInv, ResetIsDisarmed, ArmedSegment, Disarmed, FreshRetryBudget, CloseMeansAcknowledged
  <2>6. CASE state' # "CLOSED"
    <3>1. has_retransmit_segment' = has_retransmit_segment
      BY <2>1, <2>6
    <3> QED
      BY <2>1, <2>4, <2>6, <3>1
      DEF SendInv, ResetIsDisarmed, ArmedSegment, Disarmed, FreshRetryBudget, CloseMeansAcknowledged
  <2> QED
    BY <2>5, <2>6
<1> QED
  BY <1>2, <1>3, <1>4 DEF Continue, Promote

\* Every step keeps the send invariant.
LEMMA SendStep == TypeOK /\ ReceiveInv /\ SendInv /\ [Next]_vars => SendInv'
<1> SUFFICES ASSUME TypeOK, ReceiveInv, SendInv, [Next]_vars PROVE SendInv'
  OBVIOUS
<1>1. CASE BuildSyn \/ BuildFin \/ \E n \in DataLens : BuildData(n)
  BY <1>1, BuildSend
<1>2. CASE \E ms \in Ticks : Tick(ms)
  BY <1>2, TickSend
<1>3. CASE \E n \in ReadLens : Read(n)
  BY <1>3, SendKept DEF Read
<1>4. CASE \E s \in Segment : OnSegment(s)
  BY <1>4, InputAssumption, OnSegmentSend
<1>5. CASE Continue
  BY <1>5, ContinueSend
<1>6. CASE UNCHANGED vars
  BY <1>6, SendKept DEF vars
<1> QED
  BY <1>1, <1>2, <1>3, <1>4, <1>5, <1>6 DEF Next

\* The send invariant holds of every behaviour of the engine.
THEOREM SendInvariant == Spec => []SendInv
<1>1. Init => SendInv
  BY DEF Init, SendInv, ResetIsDisarmed, ArmedSegment, Disarmed, FreshRetryBudget, CloseMeansAcknowledged
<1>2. Init /\ [][Next]_vars /\ []TypeOK /\ []ReceiveInv => []SendInv
  BY <1>1, SendStep, PTL
<1> QED
  BY <1>2, TypeCorrect, ReceiveInvariant, PTL DEF Spec

\* The retransmission timer runs exactly while something is unacknowledged,
\* and the segment it would resend covers all of that: no acknowledgment,
\* partial, late or bogus, leaves data that nobody would retransmit.
THEOREM OutstandingIsRetransmittableHolds == Spec => []OutstandingIsRetransmittable
<1>1. TypeOK /\ SendInv => OutstandingIsRetransmittable
  <2> SUFFICES ASSUME TypeOK, SendInv, state # "RESET"
               PROVE  /\ has_retransmit_segment = 1 <=> send_unacknowledged # send_next
                      /\ has_retransmit_segment = 1 =>
                           /\ send_next = SeqAdd(last_segment.seq, SpaceUsed(last_segment))
                           /\ SeqSub(send_unacknowledged, last_segment.seq) < SpaceUsed(last_segment)
    BY DEF OutstandingIsRetransmittable
  <2>1. has_retransmit_segment = 1 => send_unacknowledged # send_next
    BY OpenWindow DEF SendInv
  <2>2. has_retransmit_segment # 1 => send_unacknowledged = send_next
    BY DEF SendInv, Disarmed, TypeOK
  <2> QED
    BY <2>1, <2>2 DEF SendInv, ArmedSegment
<1> QED
  BY <1>1, TypeCorrect, SendInvariant, PTL

\* Whenever all that was sent is acknowledged the retry count is zero and the
\* timeout is the default, so the next segment has the whole budget.
THEOREM FreshRetryBudgetHolds == Spec => []FreshRetryBudget
<1>1. SendInv => FreshRetryBudget
  BY DEF SendInv
<1> QED
  BY <1>1, SendInvariant, PTL

\* FIN_WAIT_2 and CLOSED imply that the peer acknowledged everything, the FIN
\* included.
THEOREM CloseMeansAcknowledgedHolds == Spec => []CloseMeansAcknowledged
<1>1. SendInv => CloseMeansAcknowledged
  BY DEF SendInv
<1> QED
  BY <1>1, SendInvariant, PTL
-----------------------------------------------------------------------------
(***************************************************************************)
(* The timeout of a retry, by induction over the number of retries.        *)
(***************************************************************************)
\* A function that doubles the default timeout.
Doubles(f) == f = [n \in Nat |-> IF n = 0 THEN DefaultRto ELSE 2 * f[n - 1]]

\* There is one.
LEMMA DoublesExists == \E f : Doubles(f)
<1> DEFINE Good(f, m) == \A n \in 0 .. m : f[n] = IF n = 0 THEN DefaultRto ELSE 2 * f[n - 1]
           S == {m \in Nat : \E f : Good(f, m)}
           F(m) == CHOOSE f : Good(f, m)
           h == [m \in Nat |-> F(m)[m]]
<1>1. DefaultRto \in Nat
  BY TimerAssumption
<1>2. 0 \in S
  <2>1. Good([n \in Nat |-> DefaultRto], 0)
    OBVIOUS
  <2> QED
    BY <2>1
<1>3. ASSUME NEW m \in Nat, m \in S PROVE m + 1 \in S
  <2>1. PICK f : Good(f, m)
    BY <1>3
  <2> DEFINE g == [n \in 0 .. (m + 1) |-> IF n = m + 1 THEN 2 * f[m] ELSE f[n]]
  <2>2. \A n \in 0 .. m : g[n] = f[n]
    OBVIOUS
  <2>3. ASSUME NEW n \in 0 .. (m + 1) PROVE g[n] = IF n = 0 THEN DefaultRto ELSE 2 * g[n - 1]
    <3>1. CASE n = m + 1
      BY <2>2, <3>1
    <3>2. CASE n # m + 1
      BY <2>1, <2>2, <3>2
    <3> QED
      BY <3>1, <3>2
  <2>4. Good(g, m + 1)
    BY <2>3
  <2> HIDE DEF g, Good
  <2> QED
    BY <2>4
<1>4. \A m \in Nat : Good(F(m), m)
  <2>1. Nat \subseteq S
    <3> HIDE DEF S
    <3> QED
      BY <1>2, <1>3, SetInduction
  <2> HIDE DEF Good
  <2> QED
    BY <2>1
<1> HIDE DEF F
<1>5. \A m \in Nat : F(m + 1)[m] = F(m)[m]
  <2> DEFINE U == {m \in Nat : \A k \in Nat : k >= m => F(k)[m] = F(m)[m]}
  <2>1. 0 \in U
    BY <1>4
  <2>2. ASSUME NEW m \in Nat, m \in U PROVE m + 1 \in U
    <3> SUFFICES ASSUME NEW k \in Nat, k >= m + 1 PROVE F(k)[m + 1] = F(m + 1)[m + 1]
      OBVIOUS
    <3>1. m + 1 \in 0 .. k /\ m + 1 \in 0 .. (m + 1) /\ m + 1 # 0 /\ (m + 1) - 1 = m
      OBVIOUS
    <3>2. F(k)[m + 1] = 2 * F(k)[m] /\ F(m + 1)[m + 1] = 2 * F(m + 1)[m]
      BY <1>4, <3>1
    <3>3. F(k)[m] = F(m)[m] /\ F(m + 1)[m] = F(m)[m]
      BY <2>2
    <3> QED
      BY <3>2, <3>3
  <2>3. Nat \subseteq U
    <3> HIDE DEF U
    <3> QED
      BY <2>1, <2>2, SetInduction
  <2> QED
    BY <2>3
<1>6. ASSUME NEW n \in Nat PROVE h[n] = IF n = 0 THEN DefaultRto ELSE 2 * h[n - 1]
  <2>1. CASE n = 0
    BY <1>4, <2>1
  <2>2. CASE n # 0
    <3>1. n - 1 \in Nat /\ (n - 1) + 1 = n /\ n \in 0 .. n
      BY <2>2
    <3>2. F(n)[n] = 2 * F(n)[n - 1]
      BY <1>4, <2>2, <3>1
    <3>3. F(n)[n - 1] = F(n - 1)[n - 1]
      BY <1>5, <3>1
    <3> QED
      BY <2>2, <3>1, <3>2, <3>3
  <2> QED
    BY <2>1, <2>2
<1>7. h = [n \in Nat |-> IF n = 0 THEN DefaultRto ELSE 2 * h[n - 1]]
  BY <1>6
<1> HIDE DEF h
<1> QED
  BY <1>7 DEF Doubles

\* What the recursive definition says of each number of retries.
LEMMA BackedOffFacts ==
  /\ BackedOff[0] = DefaultRto
  /\ \A n \in Nat : BackedOff[n] \in Nat /\ BackedOff[n + 1] = 2 * BackedOff[n]
<1>1. DefaultRto \in Nat
  BY TimerAssumption
<1>2. Doubles(CHOOSE f : Doubles(f))
  BY DoublesExists
<1>3. BackedOff = CHOOSE f : Doubles(f)
  BY DEF BackedOff, Doubles
<1>4. Doubles(BackedOff)
  BY <1>2, <1>3
<1>5. \A n \in Nat : BackedOff[n] = IF n = 0 THEN DefaultRto ELSE 2 * BackedOff[n - 1]
  BY <1>4 DEF Doubles
<1>6. ASSUME NEW n \in Nat PROVE BackedOff[n + 1] = 2 * BackedOff[n]
  <2>1. n + 1 \in Nat /\ n + 1 # 0 /\ (n + 1) - 1 = n
    OBVIOUS
  <2> QED
    BY <1>5, <2>1
<1> DEFINE S == {n \in Nat : BackedOff[n] \in Nat}
<1>7. 0 \in S
  BY <1>1, <1>5
<1>8. ASSUME NEW n \in Nat, n \in S PROVE n + 1 \in S
  BY <1>6, <1>8
<1>9. Nat \subseteq S
  <2> HIDE DEF S
  <2> QED
    BY <1>7, <1>8, SetInduction
<1> QED
  BY <1>5, <1>6, <1>9

\* An acknowledgment that moves the edge restores the budget; any other step
\* that is not a retry leaves count and timeout alone.
LEMMA BackoffStep == TypeOK /\ BackoffHonoured /\ [Next]_vars => BackoffHonoured'
<1> SUFFICES ASSUME TypeOK, BackoffHonoured, [Next]_vars PROVE BackoffHonoured'
  OBVIOUS
<1>1. /\ retransmit_timeout \in Nat /\ retransmit_timeout >= DefaultRto /\ retransmit_count \in Nat
      /\ DefaultRto \in Nat /\ MaxRto \in Nat
  BY TimerAssumption DEF TypeOK
<1>2. ASSUME retransmit_count' = retransmit_count, retransmit_timeout' = retransmit_timeout
      PROVE  BackoffHonoured'
  BY <1>2 DEF BackoffHonoured
<1>3. ASSUME retransmit_count' = 0, retransmit_timeout' \in {retransmit_timeout, DefaultRto}
      PROVE  BackoffHonoured'
  BY <1>1, <1>3, BackedOffFacts DEF BackoffHonoured
<1>4. ASSUME NEW s, ProcessAck(s) PROVE BackoffHonoured'
  BY <1>2, <1>3, <1>4 DEF ProcessAck, timerVars
<1>5. CASE BuildSyn \/ BuildFin \/ \E n \in DataLens : BuildData(n)
  BY <1>2, <1>5 DEF BuildSyn, BuildFin, BuildData, Emit, remember_for_retransmission
<1>6. CASE \E ms \in Ticks : Tick(ms)
  <2>1. PICK ms \in Ticks : Tick(ms)
    BY <1>6
  <2>2. CASE TickWait(ms) \/ TickGiveUp(ms)
    BY <1>2, <2>2 DEF TickWait, TickGiveUp
  <2>3. CASE TickRetransmit(ms)
    <3>1. retransmit_count' = retransmit_count + 1 /\ retransmit_timeout' = BackOff(retransmit_timeout)
      BY <2>3 DEF TickRetransmit
    <3>2. PICK b \in Nat : b = BackedOff[retransmit_count] /\ BackedOff[retransmit_count + 1] = 2 * b
      BY <1>1, BackedOffFacts
    <3>3. retransmit_timeout >= MaxRto \/ retransmit_timeout >= b
      BY <3>2 DEF BackoffHonoured
    <3>4. BackOff(retransmit_timeout) >= MaxRto \/ BackOff(retransmit_timeout) >= 2 * b
      BY <1>1, <3>3 DEF BackOff
    <3> QED
      BY <3>1, <3>2, <3>4 DEF BackoffHonoured
  <2> QED
    BY <2>1, <2>2, <2>3 DEF Tick
<1>7. CASE \E n \in ReadLens : Read(n)
  BY <1>2, <1>7 DEF Read, timerVars
<1>8. CASE \E s \in Segment : OnSegment(s)
  <2>1. PICK s \in Segment : OnSegment(s)
    BY <1>8
  <2>2. CASE RecvRst(s)
    BY <1>2, <2>2 DEF RecvRst
  <2>3. CASE Handshake(s)
    BY <1>3, <2>3 DEF Handshake
  <2>4. CASE \/ RecvAckOnly(s) \/ RecvNothingNew(s) \/ buffer_future_payload(s)
             \/ RecvNoCapacity(s) \/ RecvInOrder(s)
    BY <1>4, <2>4 DEF RecvAckOnly, RecvNothingNew, buffer_future_payload, RecvNoCapacity, RecvInOrder, RecvFrame
  <2> QED
    BY <2>1, <2>2, <2>3, <2>4 DEF OnSegment
<1>9. CASE Continue
  BY <1>2, <1>9 DEF Continue, Promote, PromoteSkip, PromoteObsolete, PromoteDeliver, PromoteNoCapacity,
     PromoteRescan, PromoteDone, ScanFrame, FinishSegment, timerVars
<1>10. CASE UNCHANGED vars
  BY <1>2, <1>10 DEF vars, timerVars
<1> QED
  BY <1>5, <1>6, <1>7, <1>8, <1>9, <1>10 DEF Next

\* The n-th retry waits for the default timeout doubled n times, or for the
\* maximum, for every number of retries (tcp_connection_tick).
THEOREM BackoffHonouredHolds == Spec => []BackoffHonoured
<1>1. Init => BackoffHonoured
  <2> SUFFICES ASSUME Init PROVE BackoffHonoured
    OBVIOUS
  <2>1. retransmit_timeout = DefaultRto /\ BackedOff[retransmit_count] = DefaultRto
    BY BackedOffFacts DEF Init
  <2>2. DefaultRto \in Nat
    BY TimerAssumption
  <2> QED
    BY <2>1, <2>2 DEF BackoffHonoured
<1>2. Init /\ [][Next]_vars /\ []TypeOK => []BackoffHonoured
  BY <1>1, BackoffStep, PTL
<1> QED
  BY <1>2, TypeCorrect, PTL DEF Spec
===================================================================================
