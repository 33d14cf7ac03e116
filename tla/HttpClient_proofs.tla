---------------------------- MODULE HttpClient_proofs ----------------------------
(***************************************************************************)
(* The HTTP client and the connection under it.  First the connection: the *)
(* engine implements the abstract byte stream of ByteStream when its peer  *)
(* follows TCP, for every stream, every way of cutting and ordering it and *)
(* every size of the buffers; and a FIN that came early is never passed    *)
(* over.  Only behaviours in which the connection object is opened once    *)
(* are meant: build_syn does not clear what the first one left.  Then the  *)
(* client: it uses the engine as the engine is specified, so that what is  *)
(* proved of the engine holds inside it, and its response is a faithful    *)
(* prefix of the server's, for every server, network, clock and size of    *)
(* the buffers.                                                            *)
(***************************************************************************)
EXTENDS HttpClient, TcpConnection_proofs

USE DEF Finished, Receiving, DataStates

(***************************************************************************)
(* The inductive invariant: where in the peer's stream the engine's        *)
(* sequence numbers lie.                                                   *)
(***************************************************************************)
\* Until the FIN is counted, receive_next is a position of the stream, and not
\* more bytes wait than have arrived; afterwards it is one past the FIN.
NextInStream ==
  /\ state \in Receiving =>
       \E k \in 0 .. StreamLen : receive_next = At(k) /\ Len(receive_ready) <= k
  /\ state \in Finished \/ (state = "CLOSED" /\ opens = 1) => receive_next = At(StreamLen + 1)
  /\ Len(receive_ready) <= StreamLen

\* Every slot holds a part of the stream.
SlotsInStream ==
  \A i \in Slots : reassembly[i].used = 1 =>
    \E k \in 0 .. StreamLen : /\ reassembly[i].sequence_number = At(k)
                              /\ k + Len(reassembly[i].payload) <= StreamLen

\* A remembered FIN is the peer's, and lies ahead but for the moment between
\* the arrival of the last byte and the end of promote_reassembly.
FinInStream ==
  /\ fin_flag = 1 => fin_sequence = At(StreamLen)
  /\ pending_fin = 1 =>
       /\ pending_fin_sequence = At(StreamLen)
       /\ state \in Receiving \/ state = "RESET"
       /\ \E k \in 0 .. StreamLen : receive_next = At(k) /\ (k = StreamLen => pc = "promote")

\* Bytes are promoted only while the stream is open.
PromotesWhileOpen == pc = "promote" => state \in Receiving

StreamInv ==
  opens <= 1 => NextInStream /\ SlotsInStream /\ FinInStream /\ PromotesWhileOpen
-----------------------------------------------------------------------------
(***************************************************************************)
(* Positions of the stream: on them the comparisons of sequence numbers    *)
(* are those of the positions, for the stream is shorter than half of the  *)
(* sequence space.                                                         *)
(***************************************************************************)
\* The numbers the stream lives in.
LEMMA StreamBounds ==
  /\ StreamLen \in Nat /\ StreamLen + 2 < HalfSpace /\ HalfSpace \in Nat
  /\ SeqMod \in Nat /\ SeqMod = HalfSpace + HalfSpace
BY StreamAssumption, HalfSpaceAssumption, SeqModFacts

\* Moving on from a position.
LEMMA AtMoves ==
  ASSUME NEW k \in Nat, NEW n \in Nat, k + n <= StreamLen + 1
  PROVE  At(k) \in SeqNum /\ SeqAdd(At(k), n) = At(k + n)
<1>1. PeerIsn \in SeqNum /\ k + 1 \in Nat /\ (k + 1) + n <= SeqMod /\ (k + 1) + n = (k + n) + 1
  BY StreamAssumption, StreamBounds
<1>2. SeqAdd(SeqAdd(PeerIsn, k + 1), n) = SeqAdd(PeerIsn, (k + 1) + n)
  BY <1>1, SeqAddAdd
<1> QED
  BY <1>1, <1>2, SeqClosed DEF At

\* How far apart two positions are.
LEMMA AtDistance ==
  ASSUME NEW j \in 0 .. StreamLen + 1, NEW k \in 0 .. StreamLen + 1
  PROVE  SeqSub(At(j), At(k)) = IF j >= k THEN j - k ELSE SeqMod - (k - j)
<1>1. /\ j \in Nat /\ k \in Nat /\ j <= StreamLen + 1 /\ k <= StreamLen + 1
      /\ j < HalfSpace /\ k < HalfSpace
  BY StreamBounds
<1>2. At(j) \in SeqNum /\ At(k) \in SeqNum
  BY <1>1, StreamBounds, StreamAssumption, SeqClosed DEF At
<1>3. CASE j >= k
  <2>1. j - k \in Nat /\ k + (j - k) = j /\ j - k < SeqMod
    BY <1>1, <1>3, StreamBounds
  <2>2. At(j) = SeqAdd(At(k), j - k)
    BY <1>1, <2>1, AtMoves
  <2>3. SeqSub(SeqAdd(At(k), j - k), At(k)) = j - k
    BY <1>2, <2>1, SeqSubAdd
  <2> QED
    BY <1>3, <2>2, <2>3
<1>4. CASE j < k
  <2>1. k - j \in Nat /\ j + (k - j) = k /\ k - j < SeqMod /\ k - j <= SeqMod /\ 0 < k - j
    BY <1>1, <1>4, StreamBounds
  <2>2. At(k) = SeqAdd(At(j), k - j)
    BY <1>1, <2>1, AtMoves
  <2>3. SeqAdd(At(j), k - j) =
          IF At(j) + (k - j) < SeqMod THEN At(j) + (k - j) ELSE At(j) + (k - j) - SeqMod
    BY <1>2, <2>1, SeqAddLinear
  <2>4. SeqSub(At(j), At(k)) = IF At(j) >= At(k) THEN At(j) - At(k) ELSE At(j) + SeqMod - At(k)
    BY <1>2, SeqSubLinear
  <2> QED
    BY <1>1, <1>2, <1>4, <2>1, <2>2, <2>3, <2>4, StreamBounds DEF SeqNum
<1> QED
  BY <1>1, <1>3, <1>4

\* The comparisons of sequence numbers order the positions.
LEMMA AtOrder ==
  ASSUME NEW j \in 0 .. StreamLen + 1, NEW k \in 0 .. StreamLen + 1
  PROVE  /\ seq_le(At(j), At(k)) <=> j <= k
         /\ seq_gt(At(j), At(k)) <=> j > k
         /\ At(j) = At(k) <=> j = k
<1>1. SeqSub(At(j), At(k)) = IF j >= k THEN j - k ELSE SeqMod - (k - j)
  BY AtDistance
<1>2. SeqSub(At(k), At(k)) = IF k >= k THEN k - k ELSE SeqMod - (k - k)
  BY AtDistance
<1> QED
  BY <1>1, <1>2, StreamBounds DEF seq_le, seq_gt

\* The offset of a position.
LEMMA AtOffset ==
  ASSUME NEW k \in 0 .. StreamLen + 1
  PROVE  At(k) \in SeqNum /\ Offset(At(k)) = k
<1>1. k \in Nat /\ 0 \in 0 .. StreamLen + 1 /\ k + 0 <= StreamLen + 1 /\ k >= 0
  BY StreamBounds
<1>2. SeqSub(At(k), At(0)) = k - 0
  BY <1>1, AtDistance
<1> QED
  BY <1>1, <1>2, AtMoves DEF Offset
-----------------------------------------------------------------------------
(***************************************************************************)
(* What the peer's segments and the engine's steps mean in positions.      *)
(***************************************************************************)
\* A segment without RST carries a part of the stream, the FIN behind its last
\* byte, and SYN only at the start.
LEMMA SegmentInStream ==
  ASSUME NEW s \in Segment, "RST" \notin s.flags
  PROVE  /\ s \in AnySegment
         /\ s.len # 0 => \E k \in 0 .. StreamLen : s.seq = At(k) /\ k + s.len <= StreamLen
         /\ "FIN" \in s.flags => PayloadEnd(s) = At(StreamLen)
         /\ "SYN" \in s.flags => s.seq = PeerIsn
<1>1. s \in AnySegment /\ PeerSegment(s)
  BY InputAssumption, StreamAssumption
<1>2. CASE PeerSynAck(s)
  BY <1>1, <1>2 DEF PeerSynAck
<1>3. CASE PeerLastAck(s)
  BY <1>1, <1>3 DEF PeerLastAck
<1>4. CASE PeerData(s)
  <2>1. PICK k \in 0 .. StreamLen : /\ s.seq = At(k) /\ k + s.len <= StreamLen
                                    /\ s.flags \in {{"ACK"}, {"ACK", "FIN"}}
                                    /\ "FIN" \in s.flags => k + s.len = StreamLen
    BY <1>4 DEF PeerData
  <2>2. s.len \in Nat /\ k \in Nat /\ k + s.len <= StreamLen + 1
    BY <1>1, <2>1, StreamBounds, EngineAssumption DEF AnySegment
  <2>3. SeqAdd(At(k), s.len) = At(k + s.len)
    BY <2>2, AtMoves
  <2> QED
    BY <1>1, <2>1, <2>3 DEF PayloadEnd
<1> QED
  BY <1>1, <1>2, <1>3, <1>4 DEF PeerSegment, PeerReset

\* A range of the stream that reaches beyond receive_next and does not start
\* beyond it: clipping leaves the bytes from receive_next to its end.
LEMMA ClipInStream ==
  ASSUME NEW k \in 0 .. StreamLen, NEW n \in Nat, k + n <= StreamLen,
         NEW r \in 0 .. StreamLen + 1,
         ~seq_le(SeqAdd(At(k), n), At(r)), ~seq_gt(At(k), At(r))
  PROVE  \E m \in 1 .. StreamLen :
           /\ r + m <= StreamLen
           /\ m = n - SeqSub(At(r), At(k))
           /\ Clip(Bytes(At(k), n), SeqSub(At(r), At(k))) = Bytes(At(r), m)
           /\ SeqAdd(At(r), m) = At(r + m)
<1>1. /\ k \in Nat /\ k + n \in 0 .. StreamLen + 1 /\ k \in 0 .. StreamLen + 1
      /\ k + n <= StreamLen + 1 /\ r \in Nat
  BY StreamBounds
<1>2. At(k) \in SeqNum /\ At(r) \in SeqNum /\ SeqAdd(At(k), n) = At(k + n)
  BY <1>1, AtMoves, AtOffset
<1>3. r < k + n /\ k <= r
  <2>1. ~(k + n <= r)
    BY <1>1, <1>2, AtOrder
  <2>2. ~(k > r)
    BY <1>1, AtOrder
  <2> QED
    BY <1>1, <2>1, <2>2
<1>4. SeqSub(At(r), At(k)) = r - k
  BY <1>1, <1>3, AtDistance
<1> DEFINE m == n - (r - k)
<1>5. /\ r - k \in Nat /\ r - k <= n /\ n < SeqMod /\ k + (r - k) = r /\ k + (r - k) <= StreamLen + 1
      /\ m \in 1 .. StreamLen /\ m \in Nat /\ r + m <= StreamLen /\ r + m <= StreamLen + 1
  BY <1>1, <1>3, StreamBounds
<1>6. Len(Bytes(At(k), n)) = n
  BY <1>2, BytesType
<1>7. SubSeq(Bytes(At(k), n), (r - k) + 1, n) = Bytes(SeqAdd(At(k), r - k), n - (r - k))
  BY <1>2, <1>5, BytesDrop
<1>8. SeqAdd(At(k), r - k) = At(r)
  BY <1>1, <1>5, AtMoves
<1>9. Clip(Bytes(At(k), n), r - k) = Bytes(At(r), m)
  BY <1>6, <1>7, <1>8 DEF Clip
<1>10. SeqAdd(At(r), m) = At(r + m)
  BY <1>1, <1>5, AtMoves
<1> QED
  BY <1>4, <1>5, <1>9, <1>10

\* The next m bytes of an open stream become readable.
BytesArrive(m) ==
  \E r \in 0 .. StreamLen :
    /\ state \in Receiving /\ receive_next = At(r) /\ r + m <= StreamLen
    /\ Len(receive_ready) <= r
    /\ receive_ready' = receive_ready \o Bytes(At(r), m)
    /\ receive_next' = At(r + m)
    /\ UNCHANGED <<state, opens>>

\* Bytes that arrive move receive_next to another position of the stream.
LEMMA ArrivedInStream ==
  ASSUME TypeOK, NEW m \in 1 .. StreamLen, BytesArrive(m)
  PROVE  /\ NextInStream' /\ state \in Receiving /\ state' = state
         /\ \E k \in 0 .. StreamLen : receive_next' = At(k)
<1>1. PICK r \in 0 .. StreamLen :
        /\ state \in Receiving /\ r + m <= StreamLen /\ Len(receive_ready) <= r
        /\ receive_ready' = receive_ready \o Bytes(At(r), m)
        /\ receive_next' = At(r + m) /\ UNCHANGED <<state, opens>>
  BY DEF BytesArrive
<1>2. Len(Bytes(At(r), m)) = m /\ Bytes(At(r), m) \in Seq(SeqNum)
  <2>1. r \in 0 .. StreamLen + 1 /\ m \in Nat
    BY StreamBounds
  <2>2. At(r) \in SeqNum
    BY <2>1, AtOffset
  <2> QED
    BY <2>1, <2>2, BytesType
<1>3. receive_ready \in Seq(SeqNum) /\ Len(receive_ready) \in Nat
  BY LenProperties DEF TypeOK
<1>4. Len(receive_ready') = Len(receive_ready) + m
  BY <1>1, <1>2, <1>3, ConcatProperties
<1>5. r + m \in 0 .. StreamLen /\ Len(receive_ready') <= r + m /\ Len(receive_ready') <= StreamLen
  BY <1>1, <1>3, <1>4, StreamBounds
<1> QED
  BY <1>1, <1>5 DEF NextInStream, At

\* An in-order segment.
LEMMA InOrderArrives ==
  ASSUME TypeOK, StreamInv, opens <= 1, NEW s \in Segment, RecvInOrder(s)
  PROVE  \E m \in 1 .. StreamLen : BytesArrive(m)
<1>1. /\ "RST" \notin s.flags /\ state \in DataStates /\ s.len # 0
      /\ ~seq_le(SeqAdd(s.seq, s.len), receive_next) /\ ~seq_gt(s.seq, receive_next)
      /\ receive_ready' = receive_ready \o Clip(Bytes(s.seq, s.len), SeqSub(receive_next, s.seq))
      /\ receive_next' = SeqAdd(receive_next, s.len - SeqSub(receive_next, s.seq))
      /\ UNCHANGED <<state, opens>>
  BY DEF RecvInOrder, DataGuard, InOrder, Old, PayloadEnd, RecvFrame
<1>2. PICK k \in 0 .. StreamLen : s.seq = At(k) /\ k + s.len <= StreamLen
  BY <1>1, SegmentInStream
<1>3. s.len \in Nat
  BY <1>1, SegmentInStream, EngineAssumption DEF AnySegment
<1>4. PICK r \in 0 .. StreamLen + 1 :
        /\ receive_next = At(r)
        /\ state \in Receiving => r \in 0 .. StreamLen /\ Len(receive_ready) <= r
        /\ state \notin Receiving => r = StreamLen + 1
  <2>1. CASE state \in Receiving
    <3>1. PICK r \in 0 .. StreamLen : receive_next = At(r) /\ Len(receive_ready) <= r
      BY <2>1 DEF StreamInv, NextInStream
    <3> QED
      BY <2>1, <3>1, StreamBounds
  <2>2. CASE state \notin Receiving
    <3>1. receive_next = At(StreamLen + 1) /\ StreamLen + 1 \in 0 .. StreamLen + 1
      BY <1>1, <2>2, StreamBounds DEF StreamInv, NextInStream
    <3> QED
      BY <2>2, <3>1
  <2> QED
    BY <2>1, <2>2
<1>5. PICK m \in 1 .. StreamLen :
        /\ r + m <= StreamLen /\ m = s.len - SeqSub(At(r), At(k))
        /\ Clip(Bytes(At(k), s.len), SeqSub(At(r), At(k))) = Bytes(At(r), m)
        /\ SeqAdd(At(r), m) = At(r + m)
  BY <1>1, <1>2, <1>3, <1>4, ClipInStream
<1>6. state \in Receiving
  BY <1>4, <1>5, StreamBounds
<1> QED
  BY <1>1, <1>2, <1>4, <1>5, <1>6 DEF BytesArrive

\* A slot that promote_reassembly delivers.
LEMMA PromotedArrives ==
  ASSUME TypeOK, ReceiveInv, StreamInv, opens <= 1, PromoteDeliver
  PROVE  \E m \in 1 .. StreamLen : BytesArrive(m)
<1> DEFINE slot == reassembly[slot_i]
           q    == slot.sequence_number
           n    == Len(slot.payload)
<1>1. /\ slot_i \in Slots /\ Contiguous(slot) /\ pc = "promote"
      /\ receive_ready' = receive_ready \o Clip(slot.payload, SeqSub(receive_next, q))
      /\ receive_next' = SeqAdd(receive_next, n - SeqSub(receive_next, q))
      /\ UNCHANGED <<state, opens>>
  BY EngineAssumption DEF PromoteDeliver, Scanning, ScanFrame, TypeOK, Slots, NewLen
<1>2. n \in Nat /\ ~seq_le(SeqAdd(q, n), receive_next) /\ ~seq_gt(q, receive_next)
  BY <1>1, SlotOverlap DEF SlotEnd
<1>3. slot.payload = Bytes(q, n)
  BY <1>1 DEF ReceiveInv, SlotsFaithful, Contiguous
<1>4. PICK k \in 0 .. StreamLen : q = At(k) /\ k + n <= StreamLen
  BY <1>1 DEF StreamInv, SlotsInStream, Contiguous
<1> HIDE DEF slot, q, n
<1>5. state \in Receiving
  BY <1>1 DEF StreamInv, PromotesWhileOpen
<1>6. PICK r \in 0 .. StreamLen : receive_next = At(r) /\ Len(receive_ready) <= r
  BY <1>5 DEF StreamInv, NextInStream
<1>7. r \in 0 .. StreamLen + 1
  BY StreamBounds
<1>8. PICK m \in 1 .. StreamLen :
        /\ r + m <= StreamLen /\ m = n - SeqSub(At(r), At(k))
        /\ Clip(Bytes(At(k), n), SeqSub(At(r), At(k))) = Bytes(At(r), m)
        /\ SeqAdd(At(r), m) = At(r + m)
  BY <1>2, <1>4, <1>6, <1>7, ClipInStream
<1> QED
  BY <1>1, <1>3, <1>4, <1>5, <1>6, <1>8 DEF BytesArrive

\* The end of the stream becomes known.
FinArrives ==
  /\ state \in Receiving /\ receive_next = At(StreamLen)
  /\ state' \in Finished /\ receive_next' = At(StreamLen + 1)
  /\ pending_fin' = 0

\* Nothing of what is received changes, but that a FIN ahead may be remembered
\* and that an acknowledgment of our own FIN changes the state.
FinWaits ==
  /\ receive_next' = receive_next
  /\ state' = state \/ <<state, state'>> \in {<<"FIN_WAIT_1", "FIN_WAIT_2">>, <<"LAST_ACK", "CLOSED">>}
  /\ pending_fin' = 1 =>
       /\ pending_fin_sequence' = At(StreamLen) /\ state \in Receiving
       /\ \E k \in 0 .. StreamLen : receive_next = At(k) /\ k # StreamLen

\* What is known of FINs when promote_reassembly or process_payload is done.
LEMMA FinPosition ==
  ASSUME TypeOK, ReceiveInv, StreamInv, opens <= 1, pc # "idle"
  PROVE  /\ opens = 1
         /\ state \in Receiving \/ state \in Finished
         /\ state \in Receiving => \E k \in 0 .. StreamLen : receive_next = At(k)
         /\ state \in Finished => receive_next = At(StreamLen + 1) /\ pending_fin = 0
         /\ pending_fin = 1 => pending_fin_sequence = At(StreamLen) /\ state \in Receiving
<1>1. state \in DataStates \cup {"TIME_WAIT"}
  BY DEF ReceiveInv, CallInOpenState
<1>2. opens # 0
  BY <1>1, OpenedInDataState
<1> QED
  BY <1>1, <1>2, EngineAssumption DEF StreamInv, NextInStream, FinInStream, TypeOK

\* Position StreamLen + 1 is behind the FIN.
LEMMA EndFacts ==
  /\ StreamLen \in 0 .. StreamLen + 1 /\ StreamLen + 1 \in 0 .. StreamLen + 1
  /\ SeqAdd(At(StreamLen), 1) = At(StreamLen + 1)
  /\ \A k \in 0 .. StreamLen : /\ k \in 0 .. StreamLen + 1
                               /\ At(k) = At(StreamLen) => k = StreamLen
                               /\ k # StreamLen => seq_gt(At(StreamLen), At(k))
  /\ ~seq_gt(At(StreamLen), At(StreamLen + 1)) /\ At(StreamLen) # At(StreamLen + 1)
<1>1. StreamLen \in 0 .. StreamLen + 1 /\ StreamLen + 1 \in 0 .. StreamLen + 1 /\ StreamLen \in Nat
  BY StreamBounds
<1>2. SeqAdd(At(StreamLen), 1) = At(StreamLen + 1)
  BY <1>1, AtMoves
<1>3. ASSUME NEW k \in 0 .. StreamLen
      PROVE  /\ k \in 0 .. StreamLen + 1
             /\ At(k) = At(StreamLen) => k = StreamLen
             /\ k # StreamLen => seq_gt(At(StreamLen), At(k))
  <2>1. k \in 0 .. StreamLen + 1 /\ (k # StreamLen => StreamLen > k)
    BY <1>1
  <2> QED
    BY <1>1, <2>1, AtOrder
<1>4. ~seq_gt(At(StreamLen), At(StreamLen + 1)) /\ At(StreamLen) # At(StreamLen + 1)
  <2>1. ~(StreamLen > StreamLen + 1) /\ StreamLen # StreamLen + 1
    BY <1>1
  <2> QED
    BY <1>1, <2>1, AtOrder
<1> QED
  BY <1>1, <1>2, <1>3, <1>4

\* Both ways keep the invariant once the call goes on to, or has passed, its
\* FIN handling.
LEMMA FinReceived ==
  ASSUME TypeOK, ReceiveInv, StreamInv, opens <= 1, pc # "idle", FinArrives \/ FinWaits,
         UNCHANGED <<reassembly, receive_ready, opens>>, pc' # "promote",
         fin_flag' = 1 => fin_sequence' = At(StreamLen)
  PROVE  NextInStream' /\ SlotsInStream' /\ FinInStream' /\ PromotesWhileOpen'
<1>1. /\ opens = 1 /\ (state \in Receiving \/ state \in Finished)
      /\ state \in Finished => receive_next = At(StreamLen + 1)
  BY FinPosition
<1>2. SlotsInStream' /\ PromotesWhileOpen'
  BY DEF StreamInv, SlotsInStream, PromotesWhileOpen, At
<1>3. CASE FinArrives
  <2>1. NextInStream'
    BY <1>3 DEF FinArrives, StreamInv, NextInStream, At
  <2>2. FinInStream'
    BY <1>3 DEF FinArrives, FinInStream, At
  <2> QED
    BY <1>2, <2>1, <2>2
<1>4. CASE FinWaits
  <2>1. /\ receive_next' = receive_next
        /\ state' = state \/ (state \in Receiving /\ state' \in Receiving)
                          \/ (state = "LAST_ACK" /\ state' = "CLOSED")
    BY <1>4 DEF FinWaits
  <2>2. NextInStream'
    BY <1>1, <2>1 DEF StreamInv, NextInStream, At
  <2>3. FinInStream'
    BY <1>1, <1>4, <2>1 DEF FinWaits, FinInStream, At
  <2> QED
    BY <1>2, <2>2, <2>3
<1> QED
  BY <1>3, <1>4

\* The end of promote_reassembly takes a remembered FIN that has become due.
LEMMA PromoteDoneFin ==
  ASSUME TypeOK, ReceiveInv, StreamInv, opens <= 1, PromoteDone
  PROVE  FinArrives \/ FinWaits
<1>1. /\ pc = "promote" /\ state \in Receiving
      /\ pending_fin = 1 => pending_fin_sequence = At(StreamLen)
  BY FinPosition DEF PromoteDone, StreamInv, PromotesWhileOpen
<1>2. PICK k \in 0 .. StreamLen : receive_next = At(k)
  BY <1>1 DEF StreamInv, NextInStream
<1>3. CASE pending_fin = 1 /\ pending_fin_sequence = receive_next
  <2>1. /\ receive_next' = SeqAdd(receive_next, 1) /\ state' = AfterFin(state)
        /\ pending_fin' = 0
    BY <1>3 DEF PromoteDone, consume_pending_fin, Receiver, SetReceiver
  <2>2. receive_next = At(StreamLen)
    BY <1>1, <1>3
  <2> QED
    BY <1>1, <2>1, <2>2, EndFacts DEF FinArrives, AfterFin
<1>4. CASE ~(pending_fin = 1 /\ pending_fin_sequence = receive_next)
  <2>1. UNCHANGED <<receive_next, state, pending_fin, pending_fin_sequence>>
    BY <1>4 DEF PromoteDone, consume_pending_fin, Receiver, SetReceiver
  <2> QED
    BY <1>1, <1>2, <1>4, <2>1 DEF FinWaits
<1> QED
  BY <1>3, <1>4

\* process_fin takes the FIN in order and remembers one that is early.
LEMMA FinishFin ==
  ASSUME TypeOK, ReceiveInv, StreamInv, opens <= 1, FinishSegment
  PROVE  FinArrives \/ FinWaits
<1>1. /\ pc = "fin" /\ pc # "idle"
      /\ fin_flag = 1 => fin_sequence = At(StreamLen)
      /\ fin_flag \in {0, 1} /\ pending_fin \in {0, 1}
      /\ pending_fin = 1 => receive_next # At(StreamLen)
  BY EndFacts DEF FinishSegment, StreamInv, FinInStream, TypeOK
<1> DEFINE p == process_fin(Receiver, fin_flag, fin_sequence)
           r == consume_pending_fin(p)
<1>2. /\ receive_next' = r.next /\ state' = AfterAck(r.state)
      /\ pending_fin' = r.pending /\ pending_fin_sequence' = r.pending_seq
  BY DEF FinishSegment, SetReceiver
<1>3. CASE fin_flag = 1 /\ receive_next = At(StreamLen)
  <2>1. state \in Receiving /\ pending_fin = 0
    BY <1>1, <1>3, FinPosition, EndFacts
  <2>2. p = [next |-> At(StreamLen + 1), state |-> AfterFin(state),
             pending |-> 0, pending_seq |-> pending_fin_sequence]
    BY <1>1, <1>3, <2>1, EndFacts DEF process_fin, Receiver
  <2>3. r = p
    BY <2>2 DEF consume_pending_fin
  <2> QED
    BY <1>2, <1>3, <2>1, <2>2, <2>3 DEF FinArrives, AfterFin, AfterAck
<1>4. CASE fin_flag = 0 \/ receive_next # At(StreamLen)
  <2>1. /\ p.next = receive_next /\ p.state = state /\ p.pending \in {0, 1}
        /\ p.pending = 1 =>
             /\ p.pending_seq = At(StreamLen) /\ receive_next # At(StreamLen)
             /\ state \in Receiving
    BY <1>1, <1>4, FinPosition, EndFacts DEF process_fin, Receiver
  <2> HIDE DEF p
  <2>2. r = p
    BY <2>1 DEF consume_pending_fin
  <2>3. p.pending = 1 => \E k \in 0 .. StreamLen : receive_next = At(k) /\ k # StreamLen
    BY <1>1, <2>1, FinPosition
  <2> QED
    BY <1>2, <2>1, <2>2, <2>3 DEF FinWaits, AfterAck
<1> QED
  BY <1>1, <1>3, <1>4
-----------------------------------------------------------------------------
(***************************************************************************)
(* The invariant is inductive.                                             *)
(***************************************************************************)
streamState == <<receive_next, reassembly, receive_ready, pending_fin, pending_fin_sequence,
                 pc, fin_flag, fin_sequence>>

\* Steps that leave the receive side alone: our own close, a reset, an
\* acknowledgment.
LEMMA StreamQuietStep ==
  ASSUME StreamInv, UNCHANGED streamState, UNCHANGED opens,
         \/ state' = state
         \/ pc = "idle" /\ state' = "RESET"
         \/ pc = "idle" /\ state \in Receiving /\ state' \in Receiving
         \/ pc = "idle" /\ state = "CLOSE_WAIT" /\ state' = "LAST_ACK"
  PROVE  StreamInv'
<1> SUFFICES ASSUME opens <= 1
             PROVE  NextInStream' /\ SlotsInStream' /\ FinInStream' /\ PromotesWhileOpen'
  BY DEF StreamInv
<1> USE DEF streamState
<1>1. NextInStream'
  BY DEF StreamInv, NextInStream, At
<1>2. SlotsInStream'
  BY DEF StreamInv, SlotsInStream, At
<1>3. FinInStream'
  BY DEF StreamInv, FinInStream, At
<1>4. PromotesWhileOpen'
  BY DEF StreamInv, PromotesWhileOpen
<1> QED
  BY <1>1, <1>2, <1>3, <1>4

\* The build functions, the timer and reads.
LEMMA StreamClientStep ==
  ASSUME TypeOK, StreamInv,
         \/ BuildSyn \/ BuildFin
         \/ \E n \in DataLens : BuildData(n)
         \/ \E ms \in Ticks : Tick(ms)
         \/ \E n \in ReadLens : Read(n)
  PROVE  StreamInv'
<1>1. CASE BuildSyn
  <2>1. /\ UNCHANGED streamState /\ pc = "idle" /\ state = "CLOSED" /\ state' = "SYN_SENT"
        /\ opens' = opens + 1 /\ opens \in Nat
    BY <1>1, EngineAssumption DEF BuildSyn, Emit, streamState, queueVars, callVars, finVars, TypeOK
  <2> SUFFICES ASSUME opens = 0
               PROVE  NextInStream' /\ SlotsInStream' /\ FinInStream' /\ PromotesWhileOpen'
    BY <2>1 DEF StreamInv
  <2> QED
    BY <2>1 DEF StreamInv, NextInStream, SlotsInStream, FinInStream, PromotesWhileOpen, streamState, At
<1>2. CASE BuildFin \/ \E n \in DataLens : BuildData(n)
  BY <1>2, StreamQuietStep
  DEF BuildFin, BuildData, Emit, streamState, queueVars, callVars, finVars
<1>3. CASE \E ms \in Ticks : Tick(ms)
  BY <1>3, StreamQuietStep
  DEF Tick, TickWait, TickRetransmit, TickGiveUp, TickGuard, TickFrame, streamState, queueVars,
      callVars, finVars
<1>4. ASSUME NEW n \in ReadLens, Read(n) PROVE StreamInv'
  <2> DEFINE copy_len == IF Len(receive_ready) > n THEN n ELSE Len(receive_ready)
  <2>1. /\ receive_ready' = SubSeq(receive_ready, copy_len + 1, Len(receive_ready))
        /\ UNCHANGED <<state, receive_next, reassembly, pending_fin, pending_fin_sequence, pc,
                       fin_flag, fin_sequence, opens>>
    BY <1>4 DEF Read, queueVars, callVars, finVars
  <2>2. copy_len \in Nat /\ copy_len <= Len(receive_ready) /\ Len(receive_ready) \in Nat
        /\ receive_ready \in Seq(SeqNum)
    BY InputAssumption, LenProperties DEF TypeOK
  <2> HIDE DEF copy_len
  <2>3. Len(receive_ready') = Len(receive_ready) - copy_len
    BY <2>1, <2>2, DropType
  <2>4. Len(receive_ready') <= Len(receive_ready) /\ Len(receive_ready') \in Nat
    BY <2>2, <2>3
  <2> SUFFICES ASSUME opens <= 1
               PROVE  NextInStream' /\ SlotsInStream' /\ FinInStream' /\ PromotesWhileOpen'
    BY <2>1 DEF StreamInv
  <2>5. NextInStream'
    BY <2>1, <2>2, <2>4, StreamBounds DEF StreamInv, NextInStream, At
  <2> QED
    BY <2>1, <2>5 DEF StreamInv, SlotsInStream, FinInStream, PromotesWhileOpen, At
<1> QED
  BY <1>1, <1>2, <1>3, <1>4

\* RST, the handshake and segments that only acknowledge.
LEMMA StreamControlStep ==
  ASSUME TypeOK, ReceiveInv, StreamInv, NEW s \in Segment
  PROVE  /\ RecvRst(s) => StreamInv'
         /\ Handshake(s) => StreamInv'
         /\ RecvAckOnly(s) => StreamInv'
<1>1. ASSUME RecvRst(s) PROVE StreamInv'
  <2>1. /\ state' = "RESET" /\ receive_ready' = <<>> /\ pending_fin' = 0 /\ pc = "idle"
        /\ UNCHANGED <<pc, fin_flag, fin_sequence, opens>>
        /\ \A i \in Slots : reassembly'[i].used = 0
    BY <1>1 DEF RecvRst, callVars, FreeSlot
  <2>2. Len(receive_ready') = 0
    BY <2>1, EmptySeq
  <2> QED
    BY <2>1, <2>2, StreamBounds
    DEF StreamInv, NextInStream, SlotsInStream, FinInStream, PromotesWhileOpen, At
<1>2. ASSUME Handshake(s) PROVE StreamInv'
  <2>1. /\ state = "SYN_SENT" /\ state' = "ESTABLISHED" /\ pc = "idle"
        /\ "RST" \notin s.flags /\ "SYN" \in s.flags
        /\ receive_next' = SeqAdd(s.seq, 1)
        /\ UNCHANGED <<reassembly, receive_ready, pending_fin, pending_fin_sequence, pc, fin_flag,
                       fin_sequence, opens>>
    BY <1>2 DEF Handshake, queueVars, callVars, finVars
  <2> SUFFICES ASSUME opens <= 1
               PROVE  NextInStream' /\ SlotsInStream' /\ FinInStream' /\ PromotesWhileOpen'
    BY <2>1 DEF StreamInv
  <2>2. opens = 1
    BY <2>1, EngineAssumption DEF ReceiveInv, EmptyBeforeHandshake, TypeOK
  <2>3. Len(receive_ready) = 0
    BY <2>1, <2>2, EmptySeq DEF ReceiveInv, EmptyBeforeHandshake
  <2>4. receive_next' = At(0)
    BY <2>1, SegmentInStream DEF At
  <2>5. NextInStream'
    BY <2>1, <2>3, <2>4, StreamBounds DEF NextInStream
  <2> QED
    BY <2>1, <2>5 DEF StreamInv, SlotsInStream, FinInStream, PromotesWhileOpen, At
<1>3. ASSUME RecvAckOnly(s) PROVE StreamInv'
  BY <1>3, StreamQuietStep DEF RecvAckOnly, streamState, queueVars, callVars, finVars
<1> QED
  BY <1>1, <1>2, <1>3

\* Segments with data or a FIN: old, refused, buffered, in order.
LEMMA StreamDataStep ==
  ASSUME TypeOK, ReceiveInv, StreamInv, NEW s \in Segment
  PROVE  /\ RecvNothingNew(s) => StreamInv'
         /\ RecvNoCapacity(s) => StreamInv'
         /\ buffer_future_payload(s) => StreamInv'
         /\ RecvInOrder(s) => StreamInv'
<1>1. ASSUME RecvNothingNew(s) \/ RecvNoCapacity(s) PROVE StreamInv'
  <2>1. /\ pc = "idle" /\ pc' \in {"idle", "fin"} /\ "RST" \notin s.flags
        /\ fin_flag' = 1 => "FIN" \in s.flags /\ fin_sequence' = PayloadEnd(s)
        /\ UNCHANGED <<state, receive_next, reassembly, receive_ready, pending_fin,
                       pending_fin_sequence, opens>>
    BY <1>1 DEF RecvNothingNew, RecvNoCapacity, DataGuard, continue, return, RecvFrame, queueVars,
                finVars
  <2>2. fin_flag' = 1 => fin_sequence' = At(StreamLen)
    BY <2>1, SegmentInStream
  <2> QED
    BY <2>1, <2>2 DEF StreamInv, NextInStream, SlotsInStream, FinInStream, PromotesWhileOpen, At
<1>2. ASSUME buffer_future_payload(s) PROVE StreamInv'
  <2>1. /\ pc = "idle" /\ pc' = "fin" /\ "RST" \notin s.flags /\ s.len # 0
        /\ fin_flag' = 1 => "FIN" \in s.flags /\ fin_sequence' = PayloadEnd(s)
        /\ UNCHANGED <<state, receive_next, receive_ready, pending_fin, pending_fin_sequence, opens>>
    BY <1>2 DEF buffer_future_payload, DataGuard, Future, Old, continue, RecvFrame, finVars
  <2>2. PICK i \in Slots : reassembly' = [reassembly EXCEPT ![i] =
            [used |-> 1, sequence_number |-> s.seq, payload |-> Bytes(s.seq, s.len)]]
    BY <1>2 DEF buffer_future_payload
  <2>3. \A j \in Slots : reassembly'[j] =
          IF j = i THEN [used |-> 1, sequence_number |-> s.seq, payload |-> Bytes(s.seq, s.len)]
                   ELSE reassembly[j]
    BY <2>2 DEF TypeOK
  <2>4. PICK k \in 0 .. StreamLen : s.seq = At(k) /\ k + s.len <= StreamLen
    BY <2>1, SegmentInStream
  <2>5. Len(Bytes(s.seq, s.len)) = s.len
    BY <2>1, SegmentInStream, EngineAssumption, BytesType DEF AnySegment
  <2> SUFFICES ASSUME opens <= 1
               PROVE  NextInStream' /\ SlotsInStream' /\ FinInStream' /\ PromotesWhileOpen'
    BY <2>1 DEF StreamInv
  <2>6. SlotsInStream'
    <3> SUFFICES ASSUME NEW j \in Slots, reassembly'[j].used = 1
                 PROVE  \E m \in 0 .. StreamLen : /\ reassembly'[j].sequence_number = At(m)
                                                  /\ m + Len(reassembly'[j].payload) <= StreamLen
      BY DEF SlotsInStream, At
    <3>1. CASE j = i
      BY <2>3, <2>4, <2>5, <3>1
    <3>2. CASE j # i
      BY <2>3, <3>2 DEF StreamInv, SlotsInStream
    <3> QED
      BY <3>1, <3>2
  <2>7. FinInStream'
    BY <2>1, SegmentInStream DEF StreamInv, FinInStream, At
  <2> QED
    BY <2>1, <2>6, <2>7 DEF StreamInv, NextInStream, PromotesWhileOpen, At
<1>3. ASSUME RecvInOrder(s) PROVE StreamInv'
  <2>1. /\ pc = "idle" /\ pc' = "promote" /\ "RST" \notin s.flags
        /\ fin_flag' = 1 => "FIN" \in s.flags /\ fin_sequence' = PayloadEnd(s)
        /\ UNCHANGED <<reassembly, pending_fin, pending_fin_sequence, opens>>
    BY <1>3 DEF RecvInOrder, DataGuard, continue, RecvFrame, queueVars, finVars
  <2> SUFFICES ASSUME opens <= 1
               PROVE  NextInStream' /\ SlotsInStream' /\ FinInStream' /\ PromotesWhileOpen'
    BY <2>1 DEF StreamInv
  <2>2. PICK m \in 1 .. StreamLen : BytesArrive(m)
    BY <1>3, InOrderArrives
  <2>3. NextInStream' /\ state \in Receiving /\ state' = state
        /\ \E k \in 0 .. StreamLen : receive_next' = At(k)
    BY <2>2, ArrivedInStream
  <2>4. FinInStream'
    BY <2>1, <2>3, SegmentInStream DEF StreamInv, FinInStream, At
  <2> QED
    BY <2>1, <2>3, <2>4 DEF StreamInv, SlotsInStream, PromotesWhileOpen, At
<1> QED
  BY <1>1, <1>2, <1>3

\* Freeing a slot leaves the others where they are in the stream.
LEMMA RemoveInStream ==
  ASSUME TypeOK, SlotsInStream, NEW i \in Slots, remove_reassembly_slot(i)
  PROVE  SlotsInStream'
<1> SUFFICES ASSUME NEW j \in Slots, reassembly'[j].used = 1
             PROVE  \E k \in 0 .. StreamLen : /\ reassembly'[j].sequence_number = At(k)
                                              /\ k + Len(reassembly'[j].payload) <= StreamLen
  BY DEF SlotsInStream, At
<1>1. j # i
  BY RemoveSlot DEF FreeSlot
<1>2. reassembly'[j] = reassembly[j]
  BY <1>1, RemoveSlot
<1> QED
  BY <1>2 DEF SlotsInStream

\* A slot that could be delivered reaches beyond receive_next, so the end of the
\* stream is still ahead when the ready buffer is too full for it.
LEMMA StalledBeforeEnd ==
  ASSUME TypeOK, ReceiveInv, StreamInv, opens <= 1, PromoteNoCapacity
  PROVE  receive_next # At(StreamLen)
<1> DEFINE slot == reassembly[slot_i]
           q    == slot.sequence_number
           n    == Len(slot.payload)
<1>1. slot_i \in Slots /\ Contiguous(slot)
  BY EngineAssumption DEF PromoteNoCapacity, Scanning, TypeOK, Slots
<1>2. n \in Nat /\ ~seq_le(SeqAdd(q, n), receive_next)
  BY <1>1, SlotOverlap DEF SlotEnd
<1>3. PICK k \in 0 .. StreamLen : q = At(k) /\ k + n <= StreamLen
  BY <1>1 DEF StreamInv, SlotsInStream, Contiguous
<1> HIDE DEF slot, q, n
<1>4. /\ k \in Nat /\ k + n <= StreamLen + 1 /\ k + n \in 0 .. StreamLen + 1
      /\ StreamLen \in 0 .. StreamLen + 1
  BY <1>2, <1>3, StreamBounds
<1>5. SeqAdd(q, n) = At(k + n)
  BY <1>2, <1>3, <1>4, AtMoves
<1>6. seq_le(At(k + n), At(StreamLen))
  BY <1>3, <1>4, AtOrder
<1> QED
  BY <1>2, <1>5, <1>6

\* The steps of promote_reassembly.
LEMMA StreamPromoteStep ==
  ASSUME TypeOK, ReceiveInv, StreamInv, Promote
  PROVE  StreamInv'
<1>1. CASE PromoteSkip \/ PromoteRescan
  BY <1>1, StreamQuietStep DEF PromoteSkip, PromoteRescan, ScanFrame, streamState, queueVars, finVars
<1>2. CASE PromoteObsolete
  <2>1. /\ slot_i \in Slots /\ remove_reassembly_slot(slot_i)
        /\ UNCHANGED <<state, receive_next, receive_ready, pending_fin, pending_fin_sequence, pc,
                       fin_flag, fin_sequence, opens>>
    BY <1>2, EngineAssumption DEF PromoteObsolete, Scanning, ScanFrame, finVars, TypeOK, Slots
  <2> SUFFICES ASSUME opens <= 1
               PROVE  NextInStream' /\ SlotsInStream' /\ FinInStream' /\ PromotesWhileOpen'
    BY <2>1 DEF StreamInv
  <2>2. SlotsInStream'
    BY <2>1, RemoveInStream DEF StreamInv
  <2> QED
    BY <2>1, <2>2 DEF StreamInv, NextInStream, FinInStream, PromotesWhileOpen, At
<1>3. CASE PromoteDeliver
  <2>1. /\ slot_i \in Slots /\ remove_reassembly_slot(slot_i) /\ pc = "promote"
        /\ UNCHANGED <<pending_fin, pending_fin_sequence, pc, fin_flag, fin_sequence, opens>>
    BY <1>3, EngineAssumption DEF PromoteDeliver, Scanning, ScanFrame, finVars, TypeOK, Slots
  <2> SUFFICES ASSUME opens <= 1
               PROVE  NextInStream' /\ SlotsInStream' /\ FinInStream' /\ PromotesWhileOpen'
    BY <2>1 DEF StreamInv
  <2>2. PICK m \in 1 .. StreamLen : BytesArrive(m)
    BY <1>3, PromotedArrives
  <2>3. NextInStream' /\ state \in Receiving /\ state' = state
        /\ \E k \in 0 .. StreamLen : receive_next' = At(k)
    BY <2>2, ArrivedInStream
  <2>4. SlotsInStream'
    BY <2>1, RemoveInStream DEF StreamInv
  <2>5. FinInStream'
    BY <2>1, <2>3 DEF StreamInv, FinInStream, At
  <2> QED
    BY <2>1, <2>3, <2>4, <2>5 DEF StreamInv, PromotesWhileOpen
<1>4. CASE PromoteNoCapacity
  <2>1. /\ pc' = "idle" /\ fin_flag' = 0
        /\ UNCHANGED <<state, receive_next, reassembly, receive_ready, pending_fin,
                       pending_fin_sequence, opens>>
    BY <1>4 DEF PromoteNoCapacity, return, queueVars, finVars
  <2> SUFFICES ASSUME opens <= 1
               PROVE  NextInStream' /\ SlotsInStream' /\ FinInStream' /\ PromotesWhileOpen'
    BY <2>1 DEF StreamInv
  <2>2. receive_next # At(StreamLen)
    BY <1>4, StalledBeforeEnd
  <2>3. FinInStream'
    BY <2>1, <2>2 DEF StreamInv, FinInStream, At
  <2> QED
    BY <2>1, <2>3 DEF StreamInv, NextInStream, SlotsInStream, PromotesWhileOpen, At
<1>5. CASE PromoteDone
  <2>1. /\ pc' = "fin"
        /\ UNCHANGED <<reassembly, receive_ready, fin_flag, fin_sequence, opens>>
    BY <1>5 DEF PromoteDone, queueVars
  <2> SUFFICES ASSUME opens <= 1
               PROVE  NextInStream' /\ SlotsInStream' /\ FinInStream' /\ PromotesWhileOpen'
    BY <2>1 DEF StreamInv
  <2>2. FinArrives \/ FinWaits
    BY <1>5, PromoteDoneFin
  <2>3. fin_flag' = 1 => fin_sequence' = At(StreamLen)
    BY <2>1 DEF StreamInv, FinInStream
  <2>4. pc # "idle"
    BY <1>5 DEF PromoteDone
  <2> QED
    BY <2>1, <2>2, <2>3, <2>4, FinReceived
<1> QED
  BY <1>1, <1>2, <1>3, <1>4, <1>5 DEF Promote

\* The end of on_segment.
LEMMA StreamFinishStep ==
  ASSUME TypeOK, ReceiveInv, StreamInv, FinishSegment
  PROVE  StreamInv'
<1>1. /\ pc = "fin" /\ pc' = "idle" /\ fin_flag' = 0
      /\ UNCHANGED <<reassembly, receive_ready, opens>>
  BY DEF FinishSegment, return, queueVars
<1> SUFFICES ASSUME opens <= 1
             PROVE  NextInStream' /\ SlotsInStream' /\ FinInStream' /\ PromotesWhileOpen'
  BY <1>1 DEF StreamInv
<1>2. FinArrives \/ FinWaits
  BY FinishFin
<1> QED
  BY <1>1, <1>2, FinReceived

\* The invariant is inductive.
LEMMA StreamStep == TypeOK /\ ReceiveInv /\ StreamInv /\ [Next]_vars => StreamInv'
<1> SUFFICES ASSUME TypeOK, ReceiveInv, StreamInv, [Next]_vars PROVE StreamInv'
  OBVIOUS
<1>1. CASE \/ BuildSyn \/ BuildFin
           \/ \E n \in DataLens : BuildData(n)
           \/ \E ms \in Ticks : Tick(ms)
           \/ \E n \in ReadLens : Read(n)
  BY <1>1, StreamClientStep
<1>2. CASE \E s \in Segment : OnSegment(s)
  BY <1>2, StreamControlStep, StreamDataStep DEF OnSegment
<1>3. CASE Continue
  BY <1>3, StreamPromoteStep, StreamFinishStep DEF Continue
<1>4. CASE UNCHANGED vars
  <2>1. UNCHANGED streamState /\ UNCHANGED opens /\ UNCHANGED state
    BY <1>4 DEF vars, streamState, queueVars, finVars, callVars
  <2> QED
    BY <2>1, StreamQuietStep
<1> QED
  BY <1>1, <1>2, <1>3, <1>4 DEF Next

\* Whatever part of the peer's stream arrives in whatever order, the engine's
\* sequence numbers stay positions of that stream.
THEOREM StreamInvariant == Spec => []StreamInv
<1>1. Init => StreamInv
  <2> SUFFICES ASSUME Init PROVE StreamInv
    OBVIOUS
  <2>1. Len(receive_ready) = 0
    BY EmptySeq DEF Init
  <2> QED
    BY <2>1, StreamBounds DEF Init, StreamInv, NextInStream, SlotsInStream, FinInStream,
       PromotesWhileOpen, FreeSlot
<1>2. Init /\ [][Next]_vars /\ []TypeOK /\ []ReceiveInv => []StreamInv
  BY <1>1, StreamStep, PTL
<1> QED
  BY <1>2, TypeCorrect, ReceiveInvariant, PTL DEF Spec

\* A FIN that arrived before the bytes in front of it is remembered until they
\* have come, and lies ahead of receive_next whenever a call has returned.
THEOREM PendingFinAheadHolds == Spec => []PendingFinAhead
<1>1. StreamInv => PendingFinAhead
  <2> SUFFICES ASSUME StreamInv, pc = "idle", opens = 1, pending_fin = 1
               PROVE  pending_fin_sequence = At(StreamLen) /\ seq_gt(pending_fin_sequence, receive_next)
    BY DEF PendingFinAhead
  <2>1. FinInStream
    BY DEF StreamInv
  <2>2. PICK k \in 0 .. StreamLen : receive_next = At(k) /\ k # StreamLen
    BY <2>1 DEF FinInStream
  <2> QED
    BY <2>1, <2>2, EndFacts DEF FinInStream
<1> QED
  BY <1>1, StreamInvariant, PTL
-----------------------------------------------------------------------------
(***************************************************************************)
(* What is left to read once the FIN has been counted.                     *)
(***************************************************************************)
\* After the end of the stream the ready buffer holds the last bytes of it.
RestAfterFin ==
  (opens <= 1 /\ state \in Finished) =>
    /\ receive_ready = Bytes(app_next, Len(receive_ready))
    /\ SeqAdd(app_next, Len(receive_ready)) = At(StreamLen)

\* Steps that do not touch the ready buffer and do not end the stream.
LEMMA RestQuiet ==
  ASSUME RestAfterFin, UNCHANGED <<receive_ready, app_next, opens>>,
         state' \in Finished => state \in Finished
  PROVE  RestAfterFin'
BY DEF RestAfterFin, Bytes, At

\* The FIN is counted when the bytes in front of it are in the ready buffer.
LEMMA RestAtFin ==
  ASSUME TypeOK, ReceiveInv, StreamInv, RestAfterFin, opens <= 1, pc # "idle",
         FinArrives \/ FinWaits, UNCHANGED <<receive_ready, app_next, opens>>
  PROVE  RestAfterFin'
<1>1. opens = 1
  BY FinPosition
<1>2. CASE FinArrives
  <2>1. /\ receive_ready = Bytes(app_next, Len(receive_ready))
        /\ At(StreamLen) = SeqAdd(app_next, Len(receive_ready))
    BY <1>1, <1>2 DEF FinArrives, ReceiveInv, StreamIntegrity
  <2> QED
    BY <2>1 DEF RestAfterFin, Bytes, At
<1>3. CASE FinWaits
  BY <1>3, RestQuiet DEF FinWaits
<1> QED
  BY <1>2, <1>3

\* Every step keeps the rest of the stream.
LEMMA RestStep ==
  TypeOK /\ ReceiveInv /\ StreamInv /\ RestAfterFin /\ [Next]_vars => RestAfterFin'
<1> SUFFICES ASSUME TypeOK, ReceiveInv, StreamInv, RestAfterFin, [Next]_vars,
                    opens' <= 1, state' \in Finished
             PROVE  RestAfterFin'
  BY DEF RestAfterFin
<1>1. CASE BuildSyn \/ BuildFin \/ \E n \in DataLens : BuildData(n)
  BY <1>1, RestQuiet DEF BuildSyn, BuildFin, BuildData, Emit
<1>2. CASE \E ms \in Ticks : Tick(ms)
  BY <1>2, RestQuiet DEF Tick, TickWait, TickRetransmit, TickGiveUp, TickFrame
<1>3. ASSUME NEW n \in ReadLens, Read(n) PROVE RestAfterFin'
  <2>1. UNCHANGED <<state, opens>>
    BY <1>3 DEF Read
  <2>2. /\ receive_ready = Bytes(app_next, Len(receive_ready))
        /\ SeqAdd(app_next, Len(receive_ready)) = At(StreamLen)
    BY <2>1 DEF RestAfterFin
  <2>3. /\ receive_ready' = Bytes(app_next', Len(receive_ready'))
        /\ SeqAdd(app_next', Len(receive_ready')) = At(StreamLen)
    BY <1>3, <2>2, ReadKeepsRun
  <2> QED
    BY <2>3 DEF RestAfterFin, Bytes, At
<1>4. ASSUME NEW s \in Segment, OnSegment(s) PROVE RestAfterFin'
  <2>1. CASE RecvRst(s) \/ Handshake(s)
    BY <2>1 DEF RecvRst, Handshake
  <2>2. CASE RecvAckOnly(s) \/ RecvNothingNew(s) \/ buffer_future_payload(s) \/ RecvNoCapacity(s)
    BY <2>2, RestQuiet DEF RecvAckOnly, RecvNothingNew, buffer_future_payload, RecvNoCapacity, RecvFrame
  <2>3. CASE RecvInOrder(s)
    <3>1. UNCHANGED <<state, opens>>
      BY <2>3 DEF RecvInOrder, RecvFrame
    <3>2. \E m \in 1 .. StreamLen : BytesArrive(m)
      BY <2>3, <3>1, InOrderArrives
    <3> QED
      BY <3>1, <3>2 DEF BytesArrive
  <2> QED
    BY <1>4, <2>1, <2>2, <2>3 DEF OnSegment
<1>5. CASE Promote
  <2>1. CASE PromoteSkip \/ PromoteObsolete \/ PromoteNoCapacity \/ PromoteRescan
    BY <2>1, RestQuiet DEF PromoteSkip, PromoteObsolete, PromoteNoCapacity, PromoteRescan, ScanFrame
  <2>2. CASE PromoteDeliver
    <3>1. UNCHANGED <<state, opens>>
      BY <2>2 DEF PromoteDeliver, ScanFrame
    <3>2. \E m \in 1 .. StreamLen : BytesArrive(m)
      BY <2>2, <3>1, PromotedArrives
    <3> QED
      BY <3>1, <3>2 DEF BytesArrive
  <2>3. CASE PromoteDone
    <3>1. pc # "idle" /\ UNCHANGED <<receive_ready, app_next, opens>>
      BY <2>3 DEF PromoteDone
    <3> QED
      BY <2>3, <3>1, PromoteDoneFin, RestAtFin
  <2> QED
    BY <1>5, <2>1, <2>2, <2>3 DEF Promote
<1>6. CASE FinishSegment
  <2>1. pc # "idle" /\ UNCHANGED <<receive_ready, app_next, opens>>
    BY <1>6 DEF FinishSegment
  <2> QED
    BY <1>6, <2>1, FinishFin, RestAtFin
<1>7. CASE UNCHANGED vars
  BY <1>7, RestQuiet DEF vars
<1> QED
  BY <1>1, <1>2, <1>3, <1>4, <1>5, <1>6, <1>7 DEF Next, Continue

\* Once the FIN is counted, what the application has not read yet is exactly
\* the end of the stream.
THEOREM RestAfterFinHolds == Spec => []RestAfterFin
<1>1. Init => RestAfterFin
  BY DEF Init, RestAfterFin
<1>2. Init /\ [][Next]_vars /\ []TypeOK /\ []ReceiveInv /\ []StreamInv => []RestAfterFin
  BY <1>1, RestStep, PTL
<1> QED
  BY <1>2, TypeCorrect, ReceiveInvariant, StreamInvariant, PTL DEF Spec
-----------------------------------------------------------------------------
(***************************************************************************)
(* The refinement.  The ready buffer of the abstract stream is the engine's *)
(* with every byte replaced by its offset.                                 *)
(***************************************************************************)
Mapped(q) == [k \in 1 .. Len(q) |-> Offset(q[k])]

\* Mapping keeps the length of a buffer.
LEMMA MappedType ==
  ASSUME NEW q \in Seq(SeqNum)
  PROVE  Mapped(q) \in Seq(SeqNum) /\ Len(Mapped(q)) = Len(q)
<1>1. Len(q) \in Nat /\ \A k \in 1 .. Len(q) : q[k] \in SeqNum
  BY LenProperties, ElementOfSeq
<1>2. At(0) \in SeqNum
  BY AtOffset, StreamBounds
<1>3. \A k \in 1 .. Len(q) : Offset(q[k]) \in SeqNum
  BY <1>1, <1>2, SeqClosed DEF Offset
<1>4. Mapped(q) \in [1 .. Len(q) -> SeqNum]
  BY <1>3 DEF Mapped
<1>5. Mapped(q) \in Seq(SeqNum)
  BY <1>1, <1>4, SeqDef
<1>6. DOMAIN Mapped(q) = 1 .. Len(q)
  BY DEF Mapped
<1> QED
  BY <1>1, <1>5, <1>6, LenProperties

\* Appending bytes of the stream appends their offsets.
LEMMA MappedAppend ==
  ASSUME NEW q \in Seq(SeqNum), NEW r \in 0 .. StreamLen, NEW m \in Nat, r + m <= StreamLen
  PROVE  Mapped(q \o Bytes(At(r), m)) = Mapped(q) \o Abstract!Offsets(r, m)
<1> DEFINE b == Bytes(At(r), m)
           o == Abstract!Offsets(r, m)
           p == Mapped(q)
           s == Mapped(q \o b)
           t == p \o o
<1>1. r \in Nat /\ r \in 0 .. StreamLen + 1 /\ r + m <= StreamLen + 1
  BY StreamBounds
<1>2. At(r) \in SeqNum
  BY <1>1, AtOffset
<1>3. b \in Seq(SeqNum) /\ Len(b) = m /\ \A i \in 1 .. m : b[i] = SeqAdd(At(r), i - 1)
  BY <1>2, BytesType
<1>4. Len(q) \in Nat /\ p \in Seq(SeqNum) /\ Len(p) = Len(q)
  BY LenProperties, MappedType
<1>5. ASSUME NEW i \in 1 .. m PROVE Offset(b[i]) = r + i - 1 /\ r + i - 1 \in SeqNum
  <2>1. i - 1 \in Nat /\ r + (i - 1) <= StreamLen + 1 /\ r + (i - 1) \in 0 .. StreamLen + 1
        /\ r + (i - 1) = r + i - 1 /\ r + i - 1 \in SeqNum
    BY <1>1, StreamBounds DEF SeqNum
  <2>2. b[i] = At(r + (i - 1))
    BY <1>1, <1>3, <2>1, AtMoves
  <2> QED
    BY <2>1, <2>2, AtOffset
<1>6. o \in Seq(SeqNum) /\ Len(o) = m /\ \A i \in 1 .. m : o[i] = r + i - 1
  <2>1. o = [k \in 1 .. m |-> r + k - 1]
    BY DEF Abstract!Offsets
  <2>2. o \in [1 .. m -> SeqNum]
    BY <1>5, <2>1
  <2>3. o \in Seq(SeqNum) /\ DOMAIN o = 1 .. m
    BY <2>1, <2>2, SeqDef
  <2> QED
    BY <2>1, <2>3, LenProperties
<1> HIDE DEF b, o, p
<1>7. /\ q \o b \in Seq(SeqNum) /\ Len(q \o b) = Len(q) + m
      /\ \A i \in 1 .. Len(q) + m : (q \o b)[i] = IF i <= Len(q) THEN q[i] ELSE b[i - Len(q)]
  BY <1>3, ConcatProperties
<1>8. /\ t \in Seq(SeqNum) /\ Len(t) = Len(q) + m
      /\ \A i \in 1 .. Len(q) + m : t[i] = IF i <= Len(q) THEN p[i] ELSE o[i - Len(q)]
  <2>1. /\ p \o o \in Seq(SeqNum) /\ Len(p \o o) = Len(p) + Len(o)
        /\ \A i \in 1 .. Len(p) + Len(o) : (p \o o)[i] = IF i <= Len(p) THEN p[i] ELSE o[i - Len(p)]
    BY <1>4, <1>6, ConcatProperties
  <2> QED
    BY <1>4, <1>6, <2>1
<1>9. s \in Seq(SeqNum) /\ Len(s) = Len(q) + m
      /\ \A i \in 1 .. Len(q) + m : s[i] = Offset((q \o b)[i])
  BY <1>7, MappedType DEF Mapped
<1> HIDE DEF s, t
<1>10. ASSUME NEW i \in 1 .. Len(q) + m PROVE s[i] = t[i]
  <2>1. CASE i <= Len(q)
    <3>1. i \in 1 .. Len(q)
      BY <1>4, <2>1
    <3> QED
      BY <1>7, <1>8, <1>9, <2>1, <3>1 DEF p, Mapped
  <2>2. CASE ~(i <= Len(q))
    <3>1. i - Len(q) \in 1 .. m
      BY <1>4, <2>2
    <3> QED
      BY <1>5, <1>6, <1>7, <1>8, <1>9, <2>2, <3>1
  <2> QED
    BY <2>1, <2>2
<1>11. s = t
  BY <1>8, <1>9, <1>10, SeqEqual
<1> QED
  BY <1>11 DEF s, t, b, o, p

\* Reading from a buffer and mapping it commute.
LEMMA MappedDrop ==
  ASSUME NEW q \in Seq(SeqNum), NEW n \in Nat, n <= Len(q)
  PROVE  Mapped(SubSeq(q, n + 1, Len(q))) = SubSeq(Mapped(q), n + 1, Len(Mapped(q)))
<1> DEFINE d == SubSeq(q, n + 1, Len(q))
           s == Mapped(d)
           t == SubSeq(Mapped(q), n + 1, Len(Mapped(q)))
<1>1. Len(q) \in Nat /\ Mapped(q) \in Seq(SeqNum) /\ Len(Mapped(q)) = Len(q)
  BY LenProperties, MappedType
<1>2. d \in Seq(SeqNum) /\ Len(d) = Len(q) - n /\ \A i \in 1 .. Len(q) - n : d[i] = q[n + i]
  BY DropType
<1>3. /\ t \in Seq(SeqNum) /\ Len(t) = Len(q) - n
      /\ \A i \in 1 .. Len(q) - n : t[i] = Mapped(q)[n + i]
  BY <1>1, DropType
<1> HIDE DEF d
<1>4. s \in Seq(SeqNum) /\ Len(s) = Len(q) - n /\ \A i \in 1 .. Len(q) - n : s[i] = Offset(d[i])
  BY <1>2, MappedType DEF Mapped
<1>5. \A i \in 1 .. Len(q) - n : n + i \in 1 .. Len(q)
  BY <1>1
<1>6. \A i \in 1 .. Len(q) - n : s[i] = t[i]
  BY <1>2, <1>3, <1>4, <1>5 DEF Mapped
<1> HIDE DEF s, t
<1>7. s = t
  BY <1>3, <1>4, <1>6, SeqEqual
<1> QED
  BY <1>7 DEF s, t, d

AbstractStep == Abstract!StreamNext \/ UNCHANGED Abstract!streamVars

\* The phase of the stream and the state of the connection.
LEMMA PhaseFacts ==
  /\ state = "RESET" => StreamPhase = "reset" /\ Arrived = 0
  /\ state \in Receiving => StreamPhase = "open" /\ Arrived = Offset(receive_next)
  /\ (state \in Finished \/ (state = "CLOSED" /\ opens = 1)) =>
       StreamPhase = "ended" /\ Arrived = Offset(receive_next) - 1
  /\ (state = "SYN_SENT" \/ (state = "CLOSED" /\ opens # 1)) => StreamPhase = "closed" /\ Arrived = 0
BY DEF StreamPhase, Arrived

\* A step that keeps the phase, receive_next and the ready buffer is a stutter.
LEMMA MapsToStutter ==
  ASSUME StreamPhase' = StreamPhase, receive_next' = receive_next, receive_ready' = receive_ready
  PROVE  AbstractStep
BY DEF AbstractStep, Abstract!streamVars, Arrived, Offset, At

\* A reset, which keeps the ready buffer or clears it.
LEMMA MapsToReset ==
  ASSUME state' = "RESET", receive_ready' \in {receive_ready, <<>>}
  PROVE  AbstractStep
<1>1. StreamPhase' = "reset" /\ Arrived' = 0
  BY DEF StreamPhase, Arrived
<1>2. Mapped(receive_ready)' \in {Mapped(receive_ready), <<>>}
  <2>1. CASE receive_ready' = receive_ready
    BY <2>1 DEF Mapped, Offset, At
  <2>2. CASE receive_ready' = <<>>
    <3>1. Mapped(<<>>) = <<>>
      <4>1. <<>> \in Seq(SeqNum) /\ Len(<<>>) = 0
        BY EmptySeq
      <4>2. Mapped(<<>>) \in Seq(SeqNum) /\ Len(Mapped(<<>>)) = 0
        BY <4>1, MappedType
      <4> QED
        BY <4>2, EmptySeq
    <3> QED
      BY <2>2, <3>1 DEF Mapped, Offset, At
  <2> QED
    BY <2>1, <2>2
<1> QED
  BY <1>1, <1>2 DEF AbstractStep, Abstract!StreamNext, Abstract!Reset, Mapped

\* Bytes that become readable are the next ones of the abstract stream.
LEMMA MapsToArrive ==
  ASSUME TypeOK, NEW m \in 1 .. StreamLen, BytesArrive(m)
  PROVE  AbstractStep
<1>1. PICK r \in 0 .. StreamLen :
        /\ state \in Receiving /\ receive_next = At(r) /\ r + m <= StreamLen
        /\ receive_ready' = receive_ready \o Bytes(At(r), m)
        /\ receive_next' = At(r + m) /\ UNCHANGED <<state, opens>>
  BY DEF BytesArrive
<1>2. m \in Nat /\ r \in 0 .. StreamLen + 1 /\ r + m \in 0 .. StreamLen + 1
  BY <1>1, StreamBounds
<1>3. StreamPhase = "open" /\ Arrived = r
  BY <1>1, <1>2, PhaseFacts, AtOffset
<1>4. StreamPhase' = "open" /\ Arrived' = Offset(At(r + m))
  BY <1>1 DEF StreamPhase, Arrived, Offset, At
<1>5. Offset(At(r + m)) = r + m
  BY <1>2, AtOffset
<1>6. Mapped(receive_ready \o Bytes(At(r), m)) = Mapped(receive_ready) \o Abstract!Offsets(r, m)
  BY <1>1, <1>2, MappedAppend DEF TypeOK
<1>7. Mapped(receive_ready)' = Mapped(receive_ready \o Bytes(At(r), m))
  BY <1>1 DEF Mapped, Offset, At
<1>8. Abstract!Arrive(m)
  BY <1>1, <1>3, <1>4, <1>5, <1>6, <1>7 DEF Abstract!Arrive, Mapped
<1> QED
  BY <1>8 DEF AbstractStep, Abstract!StreamNext

\* A read takes the first bytes of the abstract buffer.
LEMMA MapsToFetch ==
  ASSUME TypeOK, NextInStream, NEW n \in ReadLens, Read(n)
  PROVE  AbstractStep
<1> DEFINE copy_len == IF Len(receive_ready) > n THEN n ELSE Len(receive_ready)
<1>1. /\ receive_ready' = SubSeq(receive_ready, copy_len + 1, Len(receive_ready))
      /\ UNCHANGED <<state, receive_next, opens>>
  BY DEF Read
<1>2. /\ receive_ready \in Seq(SeqNum) /\ Len(receive_ready) \in Nat \ {0} /\ n \in Nat \ {0}
      /\ Len(receive_ready) <= StreamLen
  BY InputAssumption, EmptySeq DEF TypeOK, NextInStream, Read
<1>3. copy_len \in 1 .. StreamLen /\ copy_len \in Nat /\ copy_len <= Len(receive_ready)
  BY <1>2, StreamBounds
<1> HIDE DEF copy_len
<1>4. /\ Mapped(SubSeq(receive_ready, copy_len + 1, Len(receive_ready))) =
           SubSeq(Mapped(receive_ready), copy_len + 1, Len(Mapped(receive_ready)))
      /\ Len(Mapped(receive_ready)) = Len(receive_ready)
  BY <1>2, <1>3, MappedDrop, MappedType
<1>5. Mapped(receive_ready)' = Mapped(SubSeq(receive_ready, copy_len + 1, Len(receive_ready)))
  BY <1>1 DEF Mapped, Offset, At
<1>6. StreamPhase' = StreamPhase /\ Arrived' = Arrived
  BY <1>1 DEF StreamPhase, Arrived, Offset, At
<1>7. Abstract!Fetch(copy_len)
  BY <1>3, <1>4, <1>5, <1>6 DEF Abstract!Fetch, Mapped
<1> QED
  BY <1>3, <1>7 DEF AbstractStep, Abstract!StreamNext

\* A FIN that is taken is the end of the abstract stream; otherwise nothing
\* happened to it.
LEMMA MapsToEnd ==
  ASSUME TypeOK, ReceiveInv, StreamInv, opens <= 1, pc # "idle", FinArrives \/ FinWaits,
         UNCHANGED <<receive_ready, opens>>
  PROVE  AbstractStep
<1>1. opens = 1
  BY FinPosition
<1>2. CASE FinArrives
  <2>1. StreamPhase = "open" /\ Arrived = Offset(At(StreamLen))
    BY <1>2, PhaseFacts DEF FinArrives
  <2>2. StreamPhase' = "ended" /\ Arrived' = Offset(At(StreamLen + 1)) - 1
    BY <1>2 DEF FinArrives, StreamPhase, Arrived, Offset, At
  <2>3. Offset(At(StreamLen)) = StreamLen /\ Offset(At(StreamLen + 1)) - 1 = StreamLen
    BY EndFacts, AtOffset, StreamBounds
  <2>4. Mapped(receive_ready)' = Mapped(receive_ready)
    BY DEF Mapped, Offset, At
  <2>5. Abstract!End
    BY <2>1, <2>2, <2>3, <2>4 DEF Abstract!End, Mapped
  <2> QED
    BY <2>5 DEF AbstractStep, Abstract!StreamNext
<1>3. CASE FinWaits
  <2>1. StreamPhase' = StreamPhase
    BY <1>1, <1>3 DEF FinWaits, StreamPhase
  <2> QED
    BY <1>3, <2>1, MapsToStutter DEF FinWaits
<1> QED
  BY <1>2, <1>3

\* The handshake opens the abstract stream.
LEMMA MapsToOpen ==
  ASSUME NEW s \in Segment, Handshake(s)
  PROVE  AbstractStep
<1>1. /\ state = "SYN_SENT" /\ state' = "ESTABLISHED" /\ "RST" \notin s.flags /\ "SYN" \in s.flags
      /\ receive_next' = SeqAdd(s.seq, 1) /\ UNCHANGED receive_ready
  BY DEF Handshake
<1>2. receive_next' = At(0)
  BY <1>1, SegmentInStream DEF At
<1>3. Offset(At(0)) = 0
  BY AtOffset, StreamBounds
<1>4. StreamPhase = "closed" /\ Arrived = 0
  BY <1>1, PhaseFacts
<1>5. StreamPhase' = "open" /\ Arrived' = Offset(At(0))
  BY <1>1, <1>2 DEF StreamPhase, Arrived, Offset, At
<1>6. Mapped(receive_ready)' = Mapped(receive_ready)
  BY <1>1 DEF Mapped, Offset, At
<1>7. Abstract!Open
  BY <1>3, <1>4, <1>5, <1>6 DEF Abstract!Open, Mapped
<1> QED
  BY <1>7 DEF AbstractStep, Abstract!StreamNext

\* Every step of the engine is a step of the byte stream or a stutter.
LEMMA MapsToStream ==
  ASSUME MaxOpens = 1, TypeOK, ReceiveInv, StreamInv, [Next]_vars
  PROVE  AbstractStep
<1>1. opens \in {0, 1} /\ opens <= 1 /\ NextInStream
  BY DEF TypeOK, StreamInv
<1>2. CASE BuildSyn
  <2>1. StreamPhase' = StreamPhase /\ UNCHANGED <<receive_next, receive_ready>>
    BY <1>1, <1>2 DEF BuildSyn, Emit, StreamPhase
  <2> QED
    BY <2>1, MapsToStutter
<1>3. CASE BuildFin \/ \E n \in DataLens : BuildData(n)
  <2>1. StreamPhase' = StreamPhase /\ UNCHANGED <<receive_next, receive_ready>>
    BY <1>3 DEF BuildFin, BuildData, Emit, StreamPhase
  <2> QED
    BY <2>1, MapsToStutter
<1>4. ASSUME NEW ms \in Ticks, Tick(ms) PROVE AbstractStep
  <2>1. CASE TickGiveUp(ms)
    BY <2>1, MapsToReset DEF TickGiveUp, TickFrame
  <2>2. CASE TickWait(ms) \/ TickRetransmit(ms)
    <3>1. UNCHANGED <<state, opens, receive_next, receive_ready>>
      BY <2>2 DEF TickWait, TickRetransmit, TickFrame
    <3> QED
      BY <3>1, MapsToStutter DEF StreamPhase
  <2> QED
    BY <1>4, <2>1, <2>2 DEF Tick
<1>5. CASE \E n \in ReadLens : Read(n)
  BY <1>1, <1>5, MapsToFetch
<1>6. ASSUME NEW s \in Segment, OnSegment(s) PROVE AbstractStep
  <2>1. CASE RecvRst(s)
    BY <2>1, MapsToReset DEF RecvRst
  <2>2. CASE Handshake(s)
    BY <2>2, MapsToOpen
  <2>3. CASE RecvAckOnly(s) \/ RecvNothingNew(s) \/ buffer_future_payload(s) \/ RecvNoCapacity(s)
    <3>1. UNCHANGED <<state, opens, receive_next, receive_ready>>
      BY <2>3 DEF RecvAckOnly, RecvNothingNew, buffer_future_payload, RecvNoCapacity, RecvFrame
    <3> QED
      BY <3>1, MapsToStutter DEF StreamPhase
  <2>4. CASE RecvInOrder(s)
    BY <1>1, <2>4, InOrderArrives, MapsToArrive
  <2> QED
    BY <1>6, <2>1, <2>2, <2>3, <2>4 DEF OnSegment
<1>7. CASE Promote
  <2>1. CASE PromoteSkip \/ PromoteObsolete \/ PromoteNoCapacity \/ PromoteRescan
    <3>1. UNCHANGED <<state, opens, receive_next, receive_ready>>
      BY <2>1 DEF PromoteSkip, PromoteObsolete, PromoteNoCapacity, PromoteRescan, ScanFrame
    <3> QED
      BY <3>1, MapsToStutter DEF StreamPhase
  <2>2. CASE PromoteDeliver
    BY <1>1, <2>2, PromotedArrives, MapsToArrive
  <2>3. CASE PromoteDone
    <3>1. pc # "idle" /\ UNCHANGED <<receive_ready, opens>>
      BY <2>3 DEF PromoteDone
    <3> QED
      BY <1>1, <2>3, <3>1, PromoteDoneFin, MapsToEnd
  <2> QED
    BY <1>7, <2>1, <2>2, <2>3 DEF Promote
<1>8. CASE FinishSegment
  <2>1. pc # "idle" /\ UNCHANGED <<receive_ready, opens>>
    BY <1>8 DEF FinishSegment
  <2> QED
    BY <1>1, <1>8, <2>1, FinishFin, MapsToEnd
<1>9. CASE UNCHANGED vars
  BY <1>9, MapsToStutter DEF vars, StreamPhase
<1> QED
  BY <1>2, <1>3, <1>4, <1>5, <1>6, <1>7, <1>8, <1>9 DEF Next, Continue

\* A connection object that is opened once shows its application the peer's
\* byte stream and nothing else: tcp_connection_on_segment, _read, _tick and
\* the build functions implement the byte stream, for every stream, every way
\* the network cuts, repeats, loses and orders it and every size of the
\* buffers.  (A second tcp_connection_build_syn starts from what the first
\* connection left, and is not covered.)
THEOREM ImplementsByteStreamHolds ==
  ASSUME MaxOpens = 1
  PROVE  Spec => ImplementsByteStream
<1>1. Init => Abstract!StreamInit
  <2> SUFFICES ASSUME Init PROVE Abstract!StreamInit
    OBVIOUS
  <2>1. StreamPhase = "closed" /\ Arrived = 0
    BY PhaseFacts DEF Init
  <2>2. Mapped(receive_ready) \in Seq(SeqNum) /\ Len(Mapped(receive_ready)) = 0
    BY EmptySeq, MappedType DEF Init
  <2>3. Mapped(receive_ready) = <<>>
    BY <2>2, EmptySeq
  <2> QED
    BY <2>1, <2>3 DEF Abstract!StreamInit, Mapped
<1>2. TypeOK /\ ReceiveInv /\ StreamInv /\ [Next]_vars => [Abstract!StreamNext]_(Abstract!streamVars)
  BY MapsToStream DEF AbstractStep
<1> QED
  BY <1>1, <1>2, TypeCorrect, ReceiveInvariant, StreamInvariant, PTL
  DEF Spec, ImplementsByteStream, Abstract!StreamSpec
-----------------------------------------------------------------------------
(***************************************************************************)
(* append_response's doubling loop.                                        *)
(***************************************************************************)
\* The next capacity the loop tries.
Doubled(c) == IF c >= response_max \div 2 THEN response_max ELSE 2 * c

\* A function that computes what the loop ends with.
Grows(f, required) == f = [c \in Nat |-> IF c >= required THEN c ELSE f[Doubled(c)]]

\* The loop makes progress and stays within the maximum.
LEMMA DoubledFacts ==
  ASSUME response_max \in Nat, NEW c \in Nat, c < response_max
  PROVE  /\ Doubled(c) \in Nat /\ Doubled(c) <= response_max
         /\ c # 0 => Doubled(c) > c
         /\ c = 0 => Doubled(c) \in {0, response_max}
<1>1. response_max \div 2 \in Nat /\ 2 * (response_max \div 2) <= response_max
  OBVIOUS
<1> QED
  BY <1>1 DEF Doubled

\* The loop computes something: the recursive definition has a solution.
LEMMA GrowsExists ==
  ASSUME response_max \in Nat, NEW required \in Nat, required <= response_max
  PROVE  \E f : Grows(f, required)
<1> DEFINE Good(f, n) == \A c \in Nat : c + n >= required =>
                           f[c] = IF c >= required THEN c ELSE f[Doubled(c)]
           S == {n \in Nat : \E f \in [Nat -> Nat] : Good(f, n)}
<1>1. 0 \in S
  <2> DEFINE f == [c \in Nat |-> c]
  <2>1. f \in [Nat -> Nat] /\ Good(f, 0)
    OBVIOUS
  <2> QED
    BY <2>1
<1>2. ASSUME NEW n \in Nat, n \in S PROVE n + 1 \in S
  <2>1. PICK f \in [Nat -> Nat] : Good(f, n)
    BY <1>2
  <2> DEFINE d == required - (n + 1)
             g == [f EXCEPT ![d] = f[Doubled(d)]]
  <2>2. CASE d \in Nat
    <3>1. d < required /\ d < response_max /\ Doubled(d) \in Nat
      BY <2>2, DoubledFacts
    <3>2. g \in [Nat -> Nat] /\ \A c \in Nat : g[c] = IF c = d THEN f[Doubled(d)] ELSE f[c]
      BY <3>1
    <3> HIDE DEF g
    <3>3. ASSUME NEW c \in Nat, c + (n + 1) >= required
          PROVE  g[c] = IF c >= required THEN c ELSE g[Doubled(c)]
      <4>1. CASE c = d
        <5>1. Doubled(d) = d \/ (Doubled(d) # d /\ g[Doubled(d)] = f[Doubled(d)])
          BY <3>1, <3>2
        <5> QED
          BY <2>2, <3>1, <3>2, <4>1, <5>1
      <4>2. CASE c # d
        <5>1. c > d /\ c + n >= required
          BY <2>2, <3>3, <4>2
        <5>2. f[c] = IF c >= required THEN c ELSE f[Doubled(c)]
          BY <2>1, <5>1
        <5>3. c < required => Doubled(c) \in Nat /\ Doubled(c) > d
          <6> SUFFICES ASSUME c < required PROVE Doubled(c) \in Nat /\ Doubled(c) > d
            OBVIOUS
          <6>1. c < response_max /\ c # 0
            BY <2>2, <5>1
          <6> QED
            BY <2>2, <5>1, <6>1, DoubledFacts
        <5> QED
          BY <2>2, <3>2, <4>2, <5>2, <5>3
      <4> QED
        BY <4>1, <4>2
    <3> QED
      BY <3>2, <3>3
  <2>3. CASE d \notin Nat
    <3>1. \A c \in Nat : c + (n + 1) >= required => c + n >= required
      BY <2>3
    <3> QED
      BY <2>1, <3>1
  <2> QED
    BY <2>2, <2>3
<1>3. required \in S
  <2> HIDE DEF S
  <2> QED
    BY <1>1, <1>2, SetInduction
<1>4. PICK f \in [Nat -> Nat] : Good(f, required)
  BY <1>3
<1>5. \A c \in Nat : f[c] = IF c >= required THEN c ELSE f[Doubled(c)]
  BY <1>4
<1>6. f = [c \in Nat |-> IF c >= required THEN c ELSE f[Doubled(c)]]
  BY <1>5
<1> QED
  BY <1>6 DEF Grows

\* It ends with room for the data, within the maximum.
LEMMA GrowsEnough ==
  ASSUME response_max \in Nat, NEW required \in Nat, required <= response_max,
         NEW f, Grows(f, required), NEW capacity \in 1 .. response_max
  PROVE  f[capacity] \in required .. response_max /\ f[capacity] >= capacity
<1>1. \A c \in Nat : f[c] = IF c >= required THEN c ELSE f[Doubled(c)]
  BY DEF Grows
<1> DEFINE S == {n \in Nat : \A c \in 1 .. response_max : c + n >= required =>
                               f[c] \in required .. response_max /\ f[c] >= c}
<1>2. 0 \in S
  BY <1>1
<1>3. ASSUME NEW n \in Nat, n \in S PROVE n + 1 \in S
  <2> SUFFICES ASSUME NEW c \in 1 .. response_max, c + (n + 1) >= required
               PROVE  f[c] \in required .. response_max /\ f[c] >= c
    OBVIOUS
  <2>1. CASE c >= required
    BY <1>1, <2>1
  <2>2. CASE c < required
    <3>1. Doubled(c) \in 1 .. response_max /\ Doubled(c) + n >= required /\ Doubled(c) > c
      BY <2>2, DoubledFacts
    <3>2. f[c] = f[Doubled(c)]
      BY <1>1, <2>2
    <3>3. f[Doubled(c)] \in required .. response_max /\ f[Doubled(c)] >= Doubled(c)
      BY <1>3, <3>1
    <3> QED
      BY <3>1, <3>2, <3>3
  <2> QED
    BY <2>1, <2>2
<1>4. required \in S
  <2> HIDE DEF S
  <2> QED
    BY <1>2, <1>3, SetInduction
<1> QED
  BY <1>4

\* The new capacity has room for what is required.
LEMMA NewCapacityFits ==
  ASSUME response_max \in Nat, response_capacity \in 1 .. response_max,
         NEW required \in Nat, required <= response_max
  PROVE  NewCapacity(required) \in required .. response_max
         /\ NewCapacity(required) >= response_capacity
<1> DEFINE grow == CHOOSE f : Grows(f, required)
<1>1. Grows(grow, required)
  BY GrowsExists
<1>2. NewCapacity(required) = grow[response_capacity]
  BY DEF NewCapacity, Grows, Doubled
<1> QED
  BY <1>1, <1>2, GrowsEnough
-----------------------------------------------------------------------------
(***************************************************************************)
(* The inductive invariant.                                                *)
(***************************************************************************)
\* Where the client is and what it can have made of the connection: run_http
\* opens it once, leaves connect_tcp only with an established connection, and
\* goes round its receive loop only as long as the peer has not closed.
PhaseInv ==
  /\ response_max \in ResponseLimits
  /\ opens = IF phase = "start" THEN 0 ELSE 1
  /\ phase # "fetch_got" => pc = "idle"
  /\ phase = "connect" => state = "SYN_SENT"
  /\ phase = "connect_got" => /\ state \in {"SYN_SENT", "ESTABLISHED", "RESET"}
                              /\ result < 0 => state = "SYN_SENT"
                              /\ receive_ready = <<>>
  /\ phase \in {"request", "fetch"} => state = "ESTABLISHED"
  /\ phase = "fetch_got" => \/ state \in {"ESTABLISHED", "CLOSE_WAIT"}
                            \/ state = "RESET" /\ "RST" \in incoming.flags
  /\ phase \in {"fetch_got", "drain"} => state_before = "ESTABLISHED"
  /\ phase \in {"drain", "final"} => state \in {"ESTABLISHED", "CLOSE_WAIT"}
  /\ phase \notin {"final", "done"} => remote_closed = 0
  /\ phase = "final" => IF remote_closed = 1 THEN state = "CLOSE_WAIT" ELSE clock > HttpTimeout
  /\ RoomWheneverWaiting

\* The application's position in the stream is the end of the response, as long
\* as nothing that was read has been lost.
Connection ==
  \/ phase = "connect_got" /\ state = "ESTABLISHED"
  \/ phase \in {"request", "fetch", "fetch_got", "drain", "final"}

DataInv ==
  /\ phase \in {"start", "connect", "connect_got", "request"} => response = <<>>
  /\ Connection => app_next = At(Len(response))
  /\ response = Bytes(At(0), Len(response)) /\ Len(response) <= StreamLen
  /\ exit = 0 => IF remote_closed = 1 THEN Len(response) = StreamLen ELSE clock > HttpTimeout
  /\ \E a \in 0 .. StreamLen + 1 :
       /\ acked = At(a)
       /\ a <= Len(response) + IF Len(response) = StreamLen THEN 1 ELSE 0

ClientInv == ClientTypeOK /\ PhaseInv /\ DataInv /\ TimerNotAheadOfClock

\* What is proved of the engine with a peer that follows TCP.
EngineInv == TypeOK /\ ReceiveInv /\ StreamInv /\ RestAfterFin
-----------------------------------------------------------------------------
(***************************************************************************)
(* The client uses the engine as it is specified.                          *)
(***************************************************************************)
\* The timer is moved by tcp_connection_tick only.
LEMMA TickIsEngineStep ==
  ASSUME NEW where, TickThenGoto(where)
  PROVE  [Next]_vars
<1>1. PollMs \in Ticks
  BY ClientAssumption
<1>2. UNCHANGED vars \/ Tick(PollMs)
  BY DEF TickThenGoto, Tick
<1> QED
  BY <1>1, <1>2 DEF Next

\* Every step of the client is a call of the engine, or none.
LEMMA ClientIsEngineStep == [ClientNext]_hvars => [Next]_vars
<1> SUFFICES ASSUME [ClientNext]_hvars PROVE [Next]_vars
  OBVIOUS
<1>1. CASE \/ ConnectTimedOut \/ ConnectRefused \/ Connected \/ FetchTimedOut \/ FetchAborted
           \/ FetchTaken \/ Drained \/ Unprintable \/ ReceiveFails \/ UNCHANGED hvars
  BY <1>1 DEF ConnectTimedOut, ConnectRefused, Connected, FetchTimedOut, FetchAborted, FetchTaken,
              Drained, Unprintable, ReceiveFails, hvars
<1>2. CASE SendSyn \/ FetchContinue \/ Printed
  BY <1>2 DEF SendSyn, FetchContinue, Printed, Next
<1>3. CASE ConnectGoesOn \/ Silence
  BY <1>3, TickIsEngineStep DEF ConnectGoesOn, Silence, ConnectSilence, FetchSilence
<1>4. CASE Receive
  BY <1>4 DEF Receive, ConnectReceive, FetchReceive, Next
<1>5. CASE SendRequest \/ DrainStep
  BY <1>5, ClientAssumption DEF SendRequest, DrainStep, Next
<1> QED
  BY <1>1, <1>2, <1>3, <1>4, <1>5 DEF ClientNext, Compute

\* run_http and connect_tcp call the connection engine only in ways that the
\* engine's specification allows, so every theorem about the engine holds of
\* the engine inside the client.
THEOREM ClientRunsEngine == ClientSpec => Spec
<1>1. ClientInit => Init
  BY DEF ClientInit
<1> QED
  BY <1>1, ClientIsEngineStep, PTL DEF ClientSpec, Spec

\* What is proved of the engine.
LEMMA EngineInvariant == ClientSpec => []EngineInv
<1>1. TypeOK /\ ReceiveInv /\ StreamInv /\ RestAfterFin => EngineInv
  BY DEF EngineInv
<1> QED
  BY <1>1, ClientRunsEngine, TypeCorrect, ReceiveInvariant, StreamInvariant, RestAfterFinHolds, PTL
-----------------------------------------------------------------------------
(***************************************************************************)
(* What a segment can do to a connection that is being opened, and to an   *)
(* established one.                                                        *)
(***************************************************************************)
\* connect_tcp: the handshake, a reset, or nothing.
LEMMA ConnectSegment ==
  ASSUME NEW s \in Segment, OnSegment(s), state = "SYN_SENT", receive_ready = <<>>
  PROVE  /\ pc' = "idle" /\ receive_ready' = <<>> /\ opens' = opens
         /\ state' \in {"SYN_SENT", "ESTABLISHED", "RESET"}
         /\ result' < 0 => state' = "SYN_SENT"
         /\ state' = "ESTABLISHED" => app_next' = At(0)
<1>1. CASE RecvRst(s)
  BY <1>1 DEF RecvRst, callVars
<1>2. CASE Handshake(s)
  <2>1. "RST" \notin s.flags /\ "SYN" \in s.flags
    BY <1>2 DEF Handshake
  <2>2. SeqAdd(s.seq, 1) = At(0)
    BY <2>1, SegmentInStream DEF At
  <2> QED
    BY <1>2, <2>2 DEF Handshake, callVars
<1>3. CASE RecvAckOnly(s)
  BY <1>3 DEF RecvAckOnly, callVars
<1> QED
  BY <1>1, <1>2, <1>3 DEF OnSegment, RecvNothingNew, buffer_future_payload, RecvNoCapacity,
     RecvInOrder, DataGuard

\* run_http's loop: the application's position does not move.
LEMMA FetchSegment ==
  ASSUME NEW s \in Segment, OnSegment(s), state = "ESTABLISHED"
  PROVE  /\ opens' = opens /\ app_next' = app_next
         /\ state' = "ESTABLISHED" \/ (state' = "RESET" /\ "RST" \in s.flags)
         /\ retransmit_elapsed' \in {0, retransmit_elapsed}
<1>1. CASE RecvRst(s)
  BY <1>1 DEF RecvRst
<1>2. CASE Handshake(s) \/ RecvAckOnly(s)
  BY <1>2 DEF Handshake, RecvAckOnly
<1>3. CASE RecvNothingNew(s) \/ buffer_future_payload(s) \/ RecvNoCapacity(s) \/ RecvInOrder(s)
  BY <1>3 DEF RecvNothingNew, buffer_future_payload, RecvNoCapacity, RecvInOrder, RecvFrame,
              ProcessAck, timerVars
<1> QED
  BY <1>1, <1>2, <1>3 DEF OnSegment

\* The rest of the call may count the FIN.
LEMMA FetchRest ==
  ASSUME Continue, EngineInv, state \in {"ESTABLISHED", "CLOSE_WAIT", "RESET"}
  PROVE  /\ opens' = opens /\ app_next' = app_next /\ retransmit_elapsed' = retransmit_elapsed
         /\ state' \in {"ESTABLISHED", "CLOSE_WAIT"}
<1>1. pc # "idle" => state \in {"ESTABLISHED", "CLOSE_WAIT"}
  BY DEF EngineInv, ReceiveInv, CallInOpenState
<1>2. CASE PromoteSkip \/ PromoteObsolete \/ PromoteDeliver \/ PromoteNoCapacity \/ PromoteRescan
  BY <1>1, <1>2 DEF PromoteSkip, PromoteObsolete, PromoteDeliver, PromoteNoCapacity, PromoteRescan,
                    Scanning, ScanFrame, timerVars
<1>3. CASE PromoteDone
  BY <1>1, <1>3 DEF PromoteDone, consume_pending_fin, Receiver, AfterFin, timerVars
<1>4. CASE FinishSegment
  <2> DEFINE p == process_fin(Receiver, fin_flag, fin_sequence)
             r == consume_pending_fin(p)
  <2>1. /\ state' = AfterAck(r.state) /\ pc # "idle"
        /\ UNCHANGED <<opens, app_next, retransmit_elapsed>>
    BY <1>4 DEF FinishSegment
  <2>2. p.state \in {"ESTABLISHED", "CLOSE_WAIT"}
    BY <1>1, <2>1 DEF process_fin, Receiver, AfterFin
  <2> HIDE DEF p
  <2>3. r.state \in {"ESTABLISHED", "CLOSE_WAIT"}
    BY <2>2 DEF consume_pending_fin, AfterFin
  <2> QED
    BY <2>1, <2>3 DEF AfterAck
<1> QED
  BY <1>2, <1>3, <1>4 DEF Continue, Promote

\* What the client's invariant is about, and what a step without a call keeps.
seenVars == <<state, pc, opens, result, receive_ready, receive_next, app_next, retransmit_elapsed>>

\* A step without a call keeps all of the engine.
LEMMA NoCall ==
  ASSUME UNCHANGED vars
  PROVE  UNCHANGED seenVars
BY DEF vars, seenVars, timerVars, callVars

\* A tick ends the client or leaves everything but the timer alone.
LEMMA TickFacts ==
  ASSUME NEW where, TickThenGoto(where)
  PROVE  /\ UNCHANGED <<pc, opens, receive_ready, receive_next, app_next>>
         /\ \/ phase' = "done" /\ exit' = -1
            \/ phase' = where /\ exit' = exit /\ state' = state
<1>1. CASE UNCHANGED vars /\ Goto(where)
  BY <1>1, NoCall DEF seenVars, Goto
<1>2. CASE TickWait(PollMs) /\ Goto(where)
  BY <1>2 DEF TickWait, TickFrame, callVars, Goto
<1>3. CASE TickRetransmit(PollMs) /\ SendThenGoto(where)
  BY <1>3 DEF TickRetransmit, TickFrame, callVars, SendThenGoto, Goto, Finish
<1>4. CASE TickGiveUp(PollMs) /\ Finish(-1)
  BY <1>4 DEF TickGiveUp, TickFrame, callVars, Finish
<1> QED
  BY <1>1, <1>2, <1>3, <1>4 DEF TickThenGoto
-----------------------------------------------------------------------------
(***************************************************************************)
(* The phases.                                                             *)
(***************************************************************************)
\* Connecting.
LEMMA ConnectPhase ==
  ASSUME EngineInv, ClientTypeOK, PhaseInv,
         \/ SendSyn \/ ConnectTimedOut \/ ConnectRefused \/ Connected \/ ConnectGoesOn
         \/ \E d \in SilentWaits : ConnectSilence(d)
         \/ \E s \in Segment, d \in SegmentWaits : ConnectReceive(s, d)
  PROVE  PhaseInv'
<1>1. CASE SendSyn
  <2>1. /\ opens = 0 /\ opens' = 1 /\ state' = "SYN_SENT" /\ pc' = "idle"
        /\ receive_ready' = receive_ready
    BY <1>1 DEF SendSyn, BuildSyn, Emit, callVars, PhaseInv
  <2>2. receive_ready = <<>>
    BY <2>1 DEF EngineInv, ReceiveInv, EmptyBeforeHandshake
  <2>3. phase' \in {"connect", "done"}
    BY <1>1 DEF SendSyn, SendThenGoto, Goto, Finish
  <2> QED
    BY <1>1, <2>1, <2>2, <2>3 DEF SendSyn, PhaseInv, RoomWheneverWaiting, responseVars, localVars
<1>2. CASE ConnectTimedOut \/ ConnectRefused
  <2>1. UNCHANGED seenVars
    BY <1>2, NoCall DEF ConnectTimedOut, ConnectRefused
  <2> QED
    BY <1>2, <2>1 DEF ConnectTimedOut, ConnectRefused, Goto, Finish, PhaseInv, RoomWheneverWaiting,
       seenVars, responseVars, localVars, ClientTypeOK
<1>3. CASE Connected
  <2>1. UNCHANGED seenVars
    BY <1>3, NoCall DEF Connected
  <2> QED
    BY <1>3, <2>1 DEF Connected, SendThenGoto, Goto, Finish, PhaseInv, RoomWheneverWaiting,
       seenVars, responseVars, localVars
<1>4. CASE ConnectGoesOn \/ \E d \in SilentWaits : ConnectSilence(d)
  <2>1. /\ phase \in {"connect", "connect_got"} /\ state = "SYN_SENT"
        /\ TickThenGoto("connect")
        /\ UNCHANGED <<localVars, responseVars>>
    BY <1>4 DEF ConnectGoesOn, ConnectSilence, PhaseInv
  <2>2. /\ UNCHANGED <<pc, opens, receive_ready>>
        /\ phase' = "done" \/ (phase' = "connect" /\ state' = state)
    BY <2>1, TickFacts
  <2> QED
    BY <2>1, <2>2 DEF PhaseInv, RoomWheneverWaiting, responseVars, localVars
<1>5. ASSUME NEW s \in Segment, NEW d \in SegmentWaits, ConnectReceive(s, d) PROVE PhaseInv'
  <2>1. /\ state = "SYN_SENT" /\ receive_ready = <<>> /\ OnSegment(s)
        /\ phase = "connect" /\ phase' = "connect_got"
        /\ UNCHANGED <<state_before, remote_closed, response_max>>
    BY <1>5 DEF ConnectReceive, Goto, PhaseInv, RoomWheneverWaiting, responseVars
  <2>2. /\ pc' = "idle" /\ receive_ready' = <<>> /\ opens' = opens
        /\ state' \in {"SYN_SENT", "ESTABLISHED", "RESET"}
        /\ result' < 0 => state' = "SYN_SENT"
    BY <2>1, ConnectSegment
  <2> QED
    BY <2>1, <2>2 DEF PhaseInv, RoomWheneverWaiting
<1> QED
  BY <1>1, <1>2, <1>3, <1>4, <1>5

\* The request and the receive loop.
LEMMA FetchPhase ==
  ASSUME EngineInv, ClientTypeOK, PhaseInv,
         \/ SendRequest \/ FetchTimedOut \/ FetchContinue \/ FetchAborted \/ FetchTaken
         \/ ReceiveFails
         \/ \E d \in SilentWaits : FetchSilence(d)
         \/ \E s \in Segment, d \in SegmentWaits : FetchReceive(s, d)
  PROVE  PhaseInv'
<1>1. CASE SendRequest
  <2>1. /\ UNCHANGED <<state, pc, opens, receive_ready>>
    BY <1>1 DEF SendRequest, BuildData, Emit, callVars
  <2>2. phase' \in {"fetch", "done"}
    BY <1>1 DEF SendRequest, SendThenGoto, Goto, Finish
  <2> QED
    BY <1>1, <2>1, <2>2 DEF SendRequest, PhaseInv, RoomWheneverWaiting, responseVars, localVars
<1>2. CASE FetchTimedOut
  <2>1. UNCHANGED seenVars
    BY <1>2, NoCall DEF FetchTimedOut
  <2> QED
    BY <1>2, <2>1 DEF FetchTimedOut, Goto, PhaseInv, RoomWheneverWaiting, seenVars, responseVars,
       localVars, loopVars
<1>3. CASE FetchContinue
  <2>1. /\ phase = "fetch_got" /\ Continue
        /\ UNCHANGED <<phase, state_before, remote_closed, incoming, response_max>>
    BY <1>3 DEF FetchContinue, cvars, localVars, responseVars
  <2>2. opens' = opens /\ state' \in {"ESTABLISHED", "CLOSE_WAIT"}
    BY <2>1, FetchRest DEF PhaseInv
  <2> QED
    BY <2>1, <2>2 DEF PhaseInv, RoomWheneverWaiting
<1>4. CASE FetchAborted \/ ReceiveFails
  <2>1. UNCHANGED seenVars /\ phase' = "done" /\ pc = "idle" /\ phase # "start"
    BY <1>4, NoCall DEF FetchAborted, ReceiveFails, Finish, PhaseInv
  <2> QED
    BY <1>4, <2>1 DEF FetchAborted, ReceiveFails, PhaseInv, RoomWheneverWaiting, seenVars,
       responseVars
<1>5. CASE FetchTaken
  <2>1. UNCHANGED seenVars
    BY <1>5, NoCall DEF FetchTaken
  <2> QED
    BY <1>5, <2>1 DEF FetchTaken, Goto, PhaseInv, RoomWheneverWaiting, seenVars, responseVars,
       localVars
<1>6. ASSUME NEW d \in SilentWaits, FetchSilence(d) PROVE PhaseInv'
  <2>1. phase = "fetch" /\ TickThenGoto("fetch") /\ UNCHANGED <<localVars, responseVars>>
    BY <1>6 DEF FetchSilence
  <2>2. /\ UNCHANGED <<pc, opens, receive_ready>>
        /\ phase' = "done" \/ (phase' = "fetch" /\ state' = state)
    BY <2>1, TickFacts
  <2> QED
    BY <2>1, <2>2 DEF PhaseInv, RoomWheneverWaiting, responseVars, localVars
<1>7. ASSUME NEW s \in Segment, NEW d \in SegmentWaits, FetchReceive(s, d) PROVE PhaseInv'
  <2>1. /\ phase = "fetch" /\ phase' = "fetch_got" /\ OnSegment(s) /\ state = "ESTABLISHED"
        /\ incoming' = s /\ state_before' = state
        /\ UNCHANGED <<remote_closed, response_max>>
    BY <1>7 DEF FetchReceive, Goto, PhaseInv, responseVars
  <2>2. /\ opens' = opens
        /\ state' = "ESTABLISHED" \/ (state' = "RESET" /\ "RST" \in s.flags)
    BY <2>1, FetchSegment
  <2> QED
    BY <2>1, <2>2 DEF PhaseInv, RoomWheneverWaiting
<1> QED
  BY <1>1, <1>2, <1>3, <1>4, <1>5, <1>6, <1>7

\* The drain and the end.
LEMMA DrainPhase ==
  ASSUME ClientTypeOK, PhaseInv, DrainStep \/ Drained \/ Unprintable \/ Printed
  PROVE  PhaseInv'
<1>1. CASE DrainStep
  <2>1. /\ phase \in {"drain", "final"} /\ phase' \in {phase, "done"}
        /\ UNCHANGED <<state, pc, opens, state_before, remote_closed, clock, incoming, response_max>>
    BY <1>1 DEF DrainStep, Read, Finish, callVars, localVars, loopVars, responseVars
  <2> QED
    BY <2>1 DEF PhaseInv, RoomWheneverWaiting
<1>2. CASE Drained
  <2>1. /\ UNCHANGED seenVars /\ phase = "drain" /\ receive_ready = <<>>
        /\ UNCHANGED <<state_before, incoming, clock, response_max>>
        /\ remote_closed' = IF state_before # "CLOSE_WAIT" /\ state = "CLOSE_WAIT" THEN 1 ELSE 0
        /\ phase' \in {IF remote_closed' = 1 THEN "final" ELSE "fetch", "done"}
    BY <1>2, NoCall DEF Drained, AckThenGoto, SendThenGoto, Goto, Finish, loopVars, responseVars
  <2> QED
    BY <2>1 DEF PhaseInv, RoomWheneverWaiting, seenVars
<1>3. CASE Unprintable
  <2>1. UNCHANGED seenVars /\ phase = "final" /\ phase' = "done" /\ response_max' = response_max
    BY <1>3, NoCall DEF Unprintable, Finish, responseVars
  <2> QED
    BY <2>1 DEF PhaseInv, RoomWheneverWaiting, seenVars
<1>4. CASE Printed
  <2>1. UNCHANGED <<pc, opens>>
    <3>1. CASE BuildFin
      BY <3>1 DEF BuildFin, Emit, callVars
    <3>2. CASE UNCHANGED vars
      BY <3>2, NoCall DEF seenVars
    <3> QED
      BY <1>4, <3>1, <3>2 DEF Printed
  <2>2. phase = "final" /\ phase' = "done" /\ response_max' = response_max
    BY <1>4 DEF Printed, Finish, responseVars
  <2> QED
    BY <2>1, <2>2 DEF PhaseInv, RoomWheneverWaiting
<1> QED
  BY <1>1, <1>2, <1>3, <1>4

\* Every step of the client keeps the relation of its phase to the connection.
LEMMA PhaseStep == EngineInv /\ ClientTypeOK /\ PhaseInv /\ [ClientNext]_hvars => PhaseInv'
<1> SUFFICES ASSUME EngineInv, ClientTypeOK, PhaseInv, [ClientNext]_hvars PROVE PhaseInv'
  OBVIOUS
<1>1. CASE UNCHANGED hvars
  <2>1. UNCHANGED seenVars
    BY <1>1, NoCall DEF hvars
  <2> QED
    BY <1>1, <2>1 DEF PhaseInv, RoomWheneverWaiting, seenVars, hvars, cvars, localVars, loopVars,
       responseVars
<1> QED
  BY <1>1, ConnectPhase, FetchPhase, DrainPhase DEF ClientNext, Compute, Receive, Silence
-----------------------------------------------------------------------------
(***************************************************************************)
(* Types.                                                                  *)
(***************************************************************************)
\* The first m elements of a sequence.
LEMMA TakeType ==
  ASSUME NEW S, NEW q \in Seq(S), NEW m \in Nat, m <= Len(q)
  PROVE  /\ SubSeq(q, 1, m) \in Seq(S)
         /\ Len(SubSeq(q, 1, m)) = m
         /\ \A i \in 1 .. m : SubSeq(q, 1, m)[i] = q[i]
<1>1. Len(q) \in Nat /\ m \in Int /\ 1 \in Int
  BY LenProperties
<1>2. \A i \in 1 .. m : q[i] \in S
  BY <1>1, ElementOfSeq
<1>3. /\ SubSeq(q, 1, m) \in Seq(S)
      /\ Len(SubSeq(q, 1, m)) = IF 1 <= m THEN m - 1 + 1 ELSE 0
      /\ \A i \in 1 .. m - 1 + 1 : SubSeq(q, 1, m)[i] = q[1 + i - 1]
  BY <1>1, <1>2, SubSeqProperties
<1>4. Len(SubSeq(q, 1, m)) = m
  BY <1>3
<1>5. ASSUME NEW i \in 1 .. m PROVE SubSeq(q, 1, m)[i] = q[i]
  <2>1. i \in 1 .. m - 1 + 1 /\ 1 + i - 1 = i
    OBVIOUS
  <2> QED
    BY <1>3, <2>1
<1> QED
  BY <1>3, <1>4, <1>5

\* What a read hands over: result bytes from the front of the ready buffer.
LEMMA ReadFront ==
  ASSUME TypeOK, NEW n \in ReadLens, Read(n)
  PROVE  /\ result' \in 1 .. Len(receive_ready)
         /\ SubSeq(receive_ready, 1, result') \in Seq(SeqNum)
         /\ Len(SubSeq(receive_ready, 1, result')) = result'
         /\ \A i \in 1 .. result' : SubSeq(receive_ready, 1, result')[i] = receive_ready[i]
<1>1. /\ receive_ready \in Seq(SeqNum) /\ Len(receive_ready) \in Nat \ {0} /\ n \in Nat \ {0}
  BY InputAssumption, EmptySeq DEF TypeOK, Read
<1>2. result' \in 1 .. Len(receive_ready) /\ result' \in Nat /\ result' <= Len(receive_ready)
  BY <1>1 DEF Read
<1> QED
  BY <1>1, <1>2, TakeType

\* append_response keeps the response and its NUL within the capacity.
LEMMA DrainType ==
  ASSUME TypeOK, ClientTypeOK, PhaseInv, DrainStep
  PROVE  ClientTypeOK'
<1> DEFINE data == SubSeq(receive_ready, 1, result')
<1>1. data \in Seq(SeqNum) /\ Len(data) \in Nat
  BY ReadFront, ClientAssumption, LenProperties DEF DrainStep
<1>2. /\ phase \in {"drain", "final"}
      /\ UNCHANGED <<clock, quiet, incoming, state_before, remote_closed, acked>>
  BY DEF DrainStep, loopVars, localVars
<1>3. /\ response \in Seq(SeqNum) /\ Len(response) \in Nat /\ response_max \in Nat
      /\ response_capacity \in 1 .. response_max
  BY ClientAssumption, LenProperties DEF ClientTypeOK, PhaseInv
<1> HIDE DEF data
<1>4. CASE /\ append_response_fits(Len(data))
           /\ response' = response \o data
           /\ response_capacity' = NewCapacity(Required(Len(data)))
           /\ UNCHANGED <<phase, exit, response_max>>
  <2>1. Required(Len(data)) \in Nat /\ Required(Len(data)) <= response_max
        /\ Required(Len(data)) = Len(response) + Len(data) + 1
    BY <1>1, <1>3, <1>4 DEF append_response_fits, Required
  <2>2. /\ NewCapacity(Required(Len(data))) \in Required(Len(data)) .. response_max
        /\ NewCapacity(Required(Len(data))) >= response_capacity
    BY <1>3, <2>1, NewCapacityFits
  <2>3. response' \in Seq(SeqNum) /\ Len(response') = Len(response) + Len(data)
    BY <1>1, <1>3, <1>4, ConcatProperties
  <2>4. Len(response') + 1 <= response_capacity' /\ response_capacity' \in 1 .. response_max'
    BY <1>1, <1>3, <1>4, <2>1, <2>2, <2>3
  <2> QED
    BY <1>2, <1>4, <2>3, <2>4 DEF ClientTypeOK
<1>5. CASE Finish(-1) /\ UNCHANGED responseVars
  <2>1. /\ phase' = "done" /\ exit' = -1
        /\ UNCHANGED <<response, response_capacity, response_max>>
    BY <1>5 DEF Finish, responseVars
  <2> QED
    BY <1>2, <2>1 DEF ClientTypeOK, Phases
<1>6. \/ /\ append_response_fits(Len(data))
         /\ response' = response \o data
         /\ response_capacity' = NewCapacity(Required(Len(data)))
         /\ UNCHANGED <<phase, exit, response_max>>
      \/ Finish(-1) /\ UNCHANGED responseVars
  BY Zenon DEF DrainStep, data
<1> QED
  BY <1>4, <1>5, <1>6

\* The clocks.
LEMMA ElapseType ==
  ASSUME ClientTypeOK, NEW d \in Nat, Elapse(d)
  PROVE  clock' \in Nat /\ quiet' \in 0 .. TimerMax
BY TimerAssumption DEF ClientTypeOK, Elapse, AdvanceTimer

\* Every step keeps the types of the client's state.
LEMMA ClientTypeStep ==
  TypeOK /\ ClientTypeOK /\ PhaseInv /\ [ClientNext]_hvars => ClientTypeOK'
<1> SUFFICES ASSUME TypeOK, ClientTypeOK, PhaseInv, [ClientNext]_hvars PROVE ClientTypeOK'
  OBVIOUS
<1> USE DEF Phases
<1>1. CASE SendSyn \/ SendRequest
  BY <1>1, TimerAssumption DEF SendSyn, SendRequest, SendThenGoto, Goto, Finish, ClientTypeOK,
     responseVars, localVars
<1>2. CASE \/ ConnectTimedOut \/ ConnectRefused \/ FetchTimedOut \/ FetchAborted \/ FetchTaken
           \/ Unprintable \/ Printed \/ ReceiveFails
  BY <1>2 DEF ConnectTimedOut, ConnectRefused, FetchTimedOut, FetchAborted, FetchTaken, Unprintable,
     Printed, ReceiveFails, Goto, Finish, ClientTypeOK, responseVars, localVars, loopVars
<1>3. CASE Connected
  BY <1>3 DEF Connected, SendThenGoto, Goto, Finish, ClientTypeOK, TypeOK, responseVars, localVars,
     loopVars
<1>4. ASSUME NEW d \in SilentWaits \cup {0},
             (d = 0 /\ ConnectGoesOn) \/ ConnectSilence(d) \/ FetchSilence(d)
      PROVE  ClientTypeOK'
  <2>1. d \in Nat /\ Elapse(d) /\ UNCHANGED <<localVars, responseVars, acked>>
        /\ phase # "done" /\ TickThenGoto(IF phase = "fetch" THEN "fetch" ELSE "connect")
    BY <1>4, ClientAssumption DEF ConnectGoesOn, ConnectSilence, FetchSilence
  <2>2. clock' \in Nat /\ quiet' \in 0 .. TimerMax
    BY <2>1, ElapseType
  <2>3. \/ phase' = "done" /\ exit' = -1
        \/ phase' \in {"fetch", "connect"} /\ exit' = exit
    BY <2>1, TickFacts
  <2> QED
    BY <2>1, <2>2, <2>3 DEF ClientTypeOK, responseVars, localVars
<1>5. ASSUME NEW s \in Segment, NEW d \in SegmentWaits, ConnectReceive(s, d) \/ FetchReceive(s, d)
      PROVE  ClientTypeOK'
  <2>1. d \in Nat /\ Elapse(d) /\ s \in AnySegment /\ state \in States
    BY <1>5, ClientAssumption, InputAssumption DEF ConnectReceive, FetchReceive, TypeOK
  <2>2. clock' \in Nat /\ quiet' \in 0 .. TimerMax
    BY <2>1, ElapseType
  <2> QED
    BY <1>5, <2>1, <2>2 DEF ConnectReceive, FetchReceive, Goto, ClientTypeOK, responseVars
<1>6. CASE FetchContinue \/ UNCHANGED hvars
  BY <1>6 DEF FetchContinue, hvars, cvars, ClientTypeOK, responseVars, localVars, loopVars
<1>7. CASE DrainStep
  BY <1>7, DrainType
<1>8. CASE Drained
  BY <1>8 DEF Drained, AckThenGoto, SendThenGoto, Goto, Finish, ClientTypeOK, TypeOK, responseVars,
     loopVars
<1> QED
  BY <1>1, <1>2, <1>3, <1>4, <1>5, <1>6, <1>7, <1>8 DEF ClientNext, Compute, Receive, Silence
-----------------------------------------------------------------------------
(***************************************************************************)
(* The timer and the clock.                                                *)
(***************************************************************************)
\* A tick after a longer silence does not move the timer ahead of the clock.
LEMMA AdvanceKeepsOrder ==
  ASSUME NEW e \in 0 .. TimerMax, NEW q \in 0 .. TimerMax, e <= q,
         NEW m \in Nat, NEW d \in Nat, m <= d
  PROVE  AdvanceTimer(e, m) <= AdvanceTimer(q, d) /\ AdvanceTimer(q, d) >= q
BY TimerAssumption DEF AdvanceTimer

\* In the receive loop the retransmission timer does not run ahead of the clock.
LEMMA TimerStep ==
  TypeOK /\ ReceiveInv /\ StreamInv /\ RestAfterFin /\ ClientTypeOK /\ PhaseInv
    /\ TimerNotAheadOfClock /\ [ClientNext]_hvars => TimerNotAheadOfClock'
<1> SUFFICES ASSUME EngineInv, ClientTypeOK, PhaseInv, TimerNotAheadOfClock, [ClientNext]_hvars,
                    phase' \in {"fetch", "fetch_got", "drain"}
             PROVE  retransmit_elapsed' <= quiet'
  BY DEF TimerNotAheadOfClock, EngineInv
<1>1. /\ retransmit_elapsed \in 0 .. TimerMax /\ quiet \in 0 .. TimerMax /\ PollMs \in Nat
      /\ TimerMax \in Nat
  BY TimerAssumption, InputAssumption, ClientAssumption DEF EngineInv, TypeOK, ClientTypeOK
<1>2. CASE SendRequest
  BY <1>2 DEF SendRequest, BuildData, Emit, remember_for_retransmission
<1>3. CASE FetchTaken \/ Drained \/ UNCHANGED hvars
  <2>1. UNCHANGED seenVars /\ UNCHANGED quiet /\ phase \in {"fetch", "fetch_got", "drain"}
    BY <1>3, NoCall DEF FetchTaken, Drained, hvars, cvars, loopVars
  <2> QED
    BY <2>1 DEF TimerNotAheadOfClock, seenVars
<1>4. CASE DrainStep
  <2>1. /\ phase' = phase \/ phase' = "done"
        /\ UNCHANGED <<retransmit_elapsed, quiet>>
    BY <1>4 DEF DrainStep, Read, Finish, timerVars, loopVars
  <2> QED
    BY <2>1 DEF TimerNotAheadOfClock
<1>5. CASE FetchContinue
  <2>1. phase = "fetch_got" /\ Continue /\ UNCHANGED quiet
    BY <1>5 DEF FetchContinue, cvars, loopVars
  <2>2. retransmit_elapsed' = retransmit_elapsed
    BY <2>1, FetchRest DEF PhaseInv
  <2> QED
    BY <2>1, <2>2 DEF TimerNotAheadOfClock
<1>6. ASSUME NEW d \in SilentWaits, FetchSilence(d) PROVE retransmit_elapsed' <= quiet'
  <2>1. /\ phase = "fetch" /\ d \in Nat /\ PollMs <= d /\ TickThenGoto("fetch")
        /\ quiet' = IF retransmit_elapsed' = 0 THEN 0 ELSE AdvanceTimer(quiet, d)
        /\ retransmit_elapsed <= quiet
    BY <1>1, <1>6, ClientAssumption DEF FetchSilence, Elapse, TimerNotAheadOfClock
  <2>2. retransmit_elapsed' \in {0, retransmit_elapsed, AdvanceTimer(retransmit_elapsed, PollMs)}
        \/ phase' = "done"
    <3>1. CASE UNCHANGED vars
      BY <3>1, NoCall DEF seenVars
    <3>2. CASE TickWait(PollMs) \/ TickRetransmit(PollMs) \/ TickGiveUp(PollMs)
      BY <3>2 DEF TickWait, TickRetransmit, TickGiveUp
    <3> QED
      BY <2>1, <3>1, <3>2 DEF TickThenGoto
  <2>3. /\ AdvanceTimer(retransmit_elapsed, PollMs) <= AdvanceTimer(quiet, d)
        /\ AdvanceTimer(quiet, d) >= quiet /\ AdvanceTimer(quiet, d) \in Nat
    <3>1. AdvanceTimer(quiet, d) \in Nat
      BY <1>1, <2>1 DEF AdvanceTimer
    <3> QED
      BY <1>1, <2>1, <3>1, AdvanceKeepsOrder
  <2> QED
    BY <1>1, <2>1, <2>2, <2>3
<1>7. ASSUME NEW s \in Segment, NEW d \in SegmentWaits, FetchReceive(s, d)
      PROVE  retransmit_elapsed' <= quiet'
  <2>1. /\ phase = "fetch" /\ d \in Nat /\ OnSegment(s) /\ state = "ESTABLISHED"
        /\ quiet' = IF retransmit_elapsed' = 0 THEN 0 ELSE AdvanceTimer(quiet, d)
        /\ retransmit_elapsed <= quiet
    BY <1>7, ClientAssumption DEF FetchReceive, Elapse, TimerNotAheadOfClock, PhaseInv
  <2>2. retransmit_elapsed' \in {0, retransmit_elapsed}
    BY <2>1, FetchSegment
  <2>3. AdvanceTimer(quiet, d) >= quiet /\ AdvanceTimer(quiet, d) \in Nat
    BY <1>1, <2>1 DEF AdvanceTimer
  <2> QED
    BY <1>1, <2>1, <2>2, <2>3
<1>8. CASE \/ SendSyn \/ ConnectTimedOut \/ ConnectRefused \/ Connected \/ FetchTimedOut
           \/ FetchAborted \/ Unprintable \/ Printed \/ ReceiveFails
           \/ \E s \in Segment, d \in SegmentWaits : ConnectReceive(s, d)
  BY <1>8 DEF SendSyn, ConnectTimedOut, ConnectRefused, Connected, FetchTimedOut, FetchAborted,
     Unprintable, Printed, ReceiveFails, ConnectReceive, SendThenGoto, Goto, Finish
<1>9. CASE ConnectGoesOn \/ \E d \in SilentWaits : ConnectSilence(d)
  BY <1>9, TickFacts DEF ConnectGoesOn, ConnectSilence
<1> QED
  BY <1>2, <1>3, <1>4, <1>5, <1>6, <1>7, <1>8, <1>9 DEF ClientNext, Compute, Receive, Silence
-----------------------------------------------------------------------------
(***************************************************************************)
(* The response and the stream.                                            *)
(***************************************************************************)
\* Positions of the stream that are n bytes apart.
LEMMA Apart ==
  ASSUME NEW l \in 0 .. StreamLen, NEW k \in 0 .. StreamLen, NEW n \in 0 .. StreamLen,
         SeqAdd(At(l), n) = At(k)
  PROVE  k = l + n
<1>1. /\ l \in 0 .. StreamLen + 1 /\ k \in 0 .. StreamLen + 1 /\ n \in Nat /\ n < SeqMod
  BY StreamBounds
<1>2. At(l) \in SeqNum
  BY <1>1, AtOffset
<1>3. SeqSub(At(k), At(l)) = n
  BY <1>1, <1>2, SeqSubAdd
<1>4. SeqSub(At(k), At(l)) = IF k >= l THEN k - l ELSE SeqMod - (l - k)
  BY <1>1, AtDistance
<1> QED
  BY <1>3, <1>4, StreamBounds

\* What waits in the ready buffer when l bytes have been read.
LEMMA ReadyPosition ==
  ASSUME EngineInv, opens = 1, state \in Receiving \cup Finished,
         NEW l \in 0 .. StreamLen, app_next = At(l)
  PROVE  /\ Len(receive_ready) \in Nat /\ l + Len(receive_ready) <= StreamLen
         /\ receive_ready = Bytes(app_next, Len(receive_ready))
         /\ state \in Receiving => receive_next = At(l + Len(receive_ready))
         /\ state \in Finished => /\ l + Len(receive_ready) = StreamLen
                                  /\ receive_next = At(StreamLen + 1)
<1> DEFINE n == Len(receive_ready)
<1>1. n \in Nat /\ NextInStream
  BY LenProperties DEF EngineInv, TypeOK, StreamInv
<1>2. n \in 0 .. StreamLen
  BY <1>1, StreamBounds DEF NextInStream
<1>3. CASE state \in Receiving
  <2>1. receive_ready = Bytes(app_next, n) /\ receive_next = SeqAdd(At(l), n)
    BY <1>3 DEF EngineInv, ReceiveInv, StreamIntegrity
  <2>2. PICK k \in 0 .. StreamLen : receive_next = At(k)
    BY <1>1, <1>3 DEF NextInStream
  <2>3. k = l + n
    BY <1>2, <2>1, <2>2, Apart
  <2> QED
    BY <1>1, <1>3, <2>1, <2>2, <2>3
<1>4. CASE state \in Finished
  <2>1. receive_ready = Bytes(app_next, n) /\ SeqAdd(At(l), n) = At(StreamLen)
    BY <1>4 DEF EngineInv, RestAfterFin
  <2>2. StreamLen \in 0 .. StreamLen
    BY StreamBounds
  <2>3. StreamLen = l + n
    BY <1>2, <2>1, <2>2, Apart
  <2> QED
    BY <1>1, <1>4, <2>1, <2>3, StreamBounds DEF NextInStream
<1> QED
  BY <1>3, <1>4

\* Steps that neither touch the response nor acknowledge.
LEMMA DataQuiet ==
  ASSUME DataInv, UNCHANGED <<response, acked>>, exit' # 0,
         phase' \in {"start", "connect", "connect_got", "request"} =>
           phase \in {"start", "connect", "connect_got", "request"},
         Connection' => Connection /\ app_next' = app_next
  PROVE  DataInv'
<1>1. /\ phase' \in {"start", "connect", "connect_got", "request"} => response' = <<>>
      /\ Connection' => app_next' = At(Len(response'))
  BY DEF DataInv
<1>2. /\ response' = Bytes(At(0), Len(response')) /\ Len(response') <= StreamLen
      /\ \E a \in 0 .. StreamLen + 1 :
           /\ acked' = At(a)
           /\ a <= Len(response') + IF Len(response') = StreamLen THEN 1 ELSE 0
  BY DEF DataInv
<1> QED
  BY <1>1, <1>2 DEF DataInv, Bytes, At

\* A read moves the front of the ready buffer to the end of the response, or
\* ends the client.
LEMMA DrainData ==
  ASSUME EngineInv, ClientTypeOK, PhaseInv, DataInv, DrainStep
  PROVE  DataInv'
<1> DEFINE data == SubSeq(receive_ready, 1, result')
           l    == Len(response)
           m    == result'
<1>1. /\ phase \in {"drain", "final"} /\ Read(ReadBuffer) /\ ReadBuffer \in ReadLens
      /\ UNCHANGED <<acked, remote_closed, clock>>
  BY ClientAssumption DEF DrainStep, localVars, loopVars
<1>2. /\ opens = 1 /\ state \in Receiving \cup Finished
      /\ l \in 0 .. StreamLen /\ l \in Nat /\ app_next = At(l) /\ exit = 1
      /\ response = Bytes(At(0), l) /\ response \in Seq(SeqNum)
  BY <1>1, StreamBounds, LenProperties DEF PhaseInv, DataInv, Connection, ClientTypeOK
<1>3. /\ Len(receive_ready) \in Nat /\ l + Len(receive_ready) <= StreamLen
      /\ receive_ready = Bytes(app_next, Len(receive_ready))
  BY <1>2, ReadyPosition
<1>4. /\ m \in 1 .. Len(receive_ready) /\ data \in Seq(SeqNum) /\ Len(data) = m
      /\ \A i \in 1 .. m : data[i] = receive_ready[i]
  BY <1>1, ReadFront DEF EngineInv
<1>5. app_next' = SeqAdd(app_next, m)
  BY <1>1, <1>3, ReadKeepsRun DEF EngineInv
<1>6. /\ m \in Nat /\ l + m <= StreamLen /\ l + m <= StreamLen + 1 /\ l + m \in Nat
      /\ l + m < SeqMod /\ 0 + l <= StreamLen + 1 /\ l <= StreamLen
  BY <1>2, <1>3, <1>4, StreamBounds
<1>7. At(l) \in SeqNum /\ At(0) \in SeqNum /\ SeqAdd(At(l), m) = At(l + m) /\ SeqAdd(At(0), l) = At(l)
  <2>1. At(l) \in SeqNum /\ SeqAdd(At(l), m) = At(l + m)
    BY <1>2, <1>6, AtMoves
  <2>2. At(0) \in SeqNum /\ SeqAdd(At(0), l) = At(0 + l) /\ 0 + l = l
    BY <1>2, <1>6, AtMoves
  <2> QED
    BY <2>1, <2>2
<1> HIDE DEF data, l, m
<1>8. data = Bytes(At(l), m)
  <2>1. /\ Bytes(At(l), m) \in Seq(SeqNum) /\ Len(Bytes(At(l), m)) = m
        /\ \A i \in 1 .. m : Bytes(At(l), m)[i] = SeqAdd(At(l), i - 1)
    BY <1>6, <1>7, BytesType
  <2>2. \A i \in 1 .. Len(receive_ready) : receive_ready[i] = SeqAdd(At(l), i - 1)
    BY <1>2, <1>3, <1>7, BytesType
  <2>3. \A i \in 1 .. m : data[i] = Bytes(At(l), m)[i]
    BY <1>3, <1>4, <2>1, <2>2
  <2> QED
    BY <1>4, <2>1, <2>3, SeqEqual
<1>9. CASE response' = response \o data /\ UNCHANGED <<phase, exit>>
  <2>1. response' = Bytes(At(0), l + m)
    <3>1. Bytes(At(0), l) \o Bytes(SeqAdd(At(0), l), m) = Bytes(At(0), l + m)
      BY <1>2, <1>6, <1>7, BytesConcat
    <3> QED
      BY <1>2, <1>7, <1>8, <1>9, <3>1
  <2>2. Len(response') = l + m
    BY <1>6, <1>7, <2>1, BytesType
  <2>3. app_next' = At(Len(response'))
    BY <1>2, <1>5, <1>7, <2>2
  <2>4. PICK a \in 0 .. StreamLen + 1 : acked = At(a) /\ a <= l + IF l = StreamLen THEN 1 ELSE 0
    BY DEF DataInv, l
  <2>5. a <= Len(response') + IF Len(response') = StreamLen THEN 1 ELSE 0
    BY <1>2, <1>4, <1>6, <2>2, <2>4, StreamBounds
  <2>6. exit' # 0 /\ phase' \in {"drain", "final"}
    BY <1>1, <1>2, <1>9
  <2>7. Len(response') <= StreamLen
    BY <1>6, <2>2
  <2> QED
    BY <1>1, <2>1, <2>2, <2>3, <2>4, <2>5, <2>6, <2>7 DEF DataInv, Bytes, At
<1>10. CASE Finish(-1) /\ UNCHANGED responseVars
  BY <1>1, <1>10, DataQuiet DEF Finish, responseVars, Connection
<1>11. \/ response' = response \o data /\ UNCHANGED <<phase, exit>>
       \/ Finish(-1) /\ UNCHANGED responseVars
  BY Zenon DEF DrainStep, data
<1> QED
  BY <1>9, <1>10, <1>11

\* The acknowledgment covers what has been drained, and the FIN with the last
\* byte only.
LEMMA AckData ==
  ASSUME EngineInv, ClientTypeOK, PhaseInv, DataInv, Connected \/ Drained
  PROVE  DataInv'
<1> DEFINE l == Len(response)
<1>1. /\ Connection /\ receive_ready = <<>> /\ opens = 1 /\ state \in Receiving \cup Finished
      /\ UNCHANGED response /\ acked' \in {acked, receive_next}
      /\ UNCHANGED seenVars /\ exit = 1 /\ exit' # 0
      /\ phase' \notin {"start", "connect", "connect_got"}
      /\ phase' = "request" => phase = "connect_got"
  <2>1. CASE Connected
    BY <2>1, NoCall DEF Connected, PhaseInv, Connection, ClientTypeOK, SendThenGoto, Goto, Finish,
       responseVars
  <2>2. CASE Drained
    BY <2>2, NoCall DEF Drained, PhaseInv, Connection, ClientTypeOK, AckThenGoto, SendThenGoto, Goto,
       Finish, responseVars
  <2> QED
    BY <2>1, <2>2
<1>2. /\ l \in 0 .. StreamLen /\ app_next = At(l) /\ l \in Nat
  BY <1>1, StreamBounds, LenProperties DEF DataInv, ClientTypeOK
<1>3. Len(receive_ready) = 0
  BY <1>1, EmptySeq
<1>4. /\ state \in Receiving => receive_next = At(l)
      /\ state \in Finished => l = StreamLen /\ receive_next = At(StreamLen + 1)
  <2>1. /\ state \in Receiving => receive_next = At(l + 0)
        /\ state \in Finished => l + 0 = StreamLen /\ receive_next = At(StreamLen + 1)
    BY <1>1, <1>2, <1>3, ReadyPosition
  <2>2. l + 0 = l
    BY <1>2
  <2> QED
    BY <2>1, <2>2
<1>5. \E a \in 0 .. StreamLen + 1 :
        acked' = At(a) /\ a <= l + IF l = StreamLen THEN 1 ELSE 0
  <2>1. CASE acked' = acked
    BY <2>1 DEF DataInv
  <2>2. CASE acked' = receive_next /\ state \in Receiving
    <3>1. l \in 0 .. StreamLen + 1 /\ l <= l + IF l = StreamLen THEN 1 ELSE 0
      BY <1>2, StreamBounds
    <3> QED
      BY <1>4, <2>2, <3>1
  <2>3. CASE acked' = receive_next /\ state \in Finished
    <3>1. StreamLen + 1 \in 0 .. StreamLen + 1 /\ StreamLen + 1 <= l + IF l = StreamLen THEN 1 ELSE 0
      BY <1>2, <1>4, <2>3, StreamBounds
    <3> QED
      BY <1>4, <2>3, <3>1
  <2> QED
    BY <1>1, <2>1, <2>2, <2>3
<1>6. phase' = "request" => response' = <<>>
  BY <1>1 DEF DataInv
<1> HIDE DEF l
<1>7. app_next' = At(Len(response')) /\ Len(response') = l
  BY <1>1, <1>2 DEF seenVars, l
<1>8. response' = Bytes(At(0), Len(response')) /\ Len(response') <= StreamLen
  BY <1>1 DEF DataInv
<1> QED
  BY <1>1, <1>5, <1>6, <1>7, <1>8 DEF DataInv, Bytes, At

\* print_http_response is reached with everything read: the whole response
\* after the peer's FIN.
LEMMA PrintedData ==
  ASSUME EngineInv, ClientTypeOK, PhaseInv, DataInv, Printed
  PROVE  DataInv'
<1> DEFINE l == Len(response)
<1>1. /\ phase = "final" /\ phase' = "done" /\ receive_ready = <<>>
      /\ UNCHANGED <<response, acked, remote_closed, clock>>
  BY DEF Printed, Finish, responseVars, localVars, loopVars
<1>2. /\ opens = 1 /\ state \in Receiving \cup Finished
      /\ IF remote_closed = 1 THEN state \in Finished ELSE clock > HttpTimeout
  BY <1>1 DEF PhaseInv
<1>3. /\ l \in 0 .. StreamLen /\ app_next = At(l) /\ l \in Nat
  BY <1>1, StreamBounds, LenProperties DEF DataInv, Connection, ClientTypeOK
<1>4. Len(receive_ready) = 0
  BY <1>1, EmptySeq
<1>5. remote_closed = 1 => l = StreamLen
  <2>1. remote_closed = 1 => l + 0 = StreamLen
    BY <1>2, <1>3, <1>4, ReadyPosition
  <2> QED
    BY <1>3, <2>1
<1>6. IF remote_closed' = 1 THEN Len(response') = StreamLen ELSE clock' > HttpTimeout
  BY <1>1, <1>2, <1>5
<1>7. /\ response' = Bytes(At(0), Len(response')) /\ Len(response') <= StreamLen
      /\ \E a \in 0 .. StreamLen + 1 :
           acked' = At(a) /\ a <= Len(response') + IF Len(response') = StreamLen THEN 1 ELSE 0
  BY <1>1 DEF DataInv
<1> QED
  BY <1>1, <1>6, <1>7 DEF DataInv, Connection, Bytes, At

\* Every step keeps the response a prefix of the stream and the acknowledgment
\* within it.
LEMMA DataStep ==
  EngineInv /\ ClientTypeOK /\ PhaseInv /\ DataInv /\ [ClientNext]_hvars => DataInv'
<1> SUFFICES ASSUME EngineInv, ClientTypeOK, PhaseInv, DataInv, [ClientNext]_hvars PROVE DataInv'
  OBVIOUS
<1>1. CASE UNCHANGED hvars
  <2>1. UNCHANGED seenVars
    BY <1>1, NoCall DEF hvars
  <2> QED
    BY <1>1, <2>1 DEF DataInv, Connection, seenVars, hvars, cvars, localVars, loopVars, responseVars,
       Bytes, At
<1>2. CASE SendSyn
  BY <1>2, DataQuiet DEF SendSyn, SendThenGoto, Goto, Finish, ClientTypeOK, Connection, responseVars
<1>3. CASE \/ ConnectTimedOut \/ ConnectRefused \/ FetchTimedOut \/ FetchAborted \/ FetchTaken
           \/ Unprintable \/ ReceiveFails
  <2>1. UNCHANGED seenVars
    BY <1>3, NoCall DEF ConnectTimedOut, ConnectRefused, FetchTimedOut, FetchAborted, FetchTaken,
       Unprintable, ReceiveFails
  <2>2. UNCHANGED <<response, acked>> /\ exit = 1 /\ exit' \in {1, -1}
    BY <1>3 DEF ConnectTimedOut, ConnectRefused, FetchTimedOut, FetchAborted, FetchTaken,
       Unprintable, ReceiveFails, Goto, Finish, ClientTypeOK, responseVars
  <2>3. /\ phase' \in {"start", "connect", "connect_got", "request"} => phase = "connect_got"
        /\ Connection' => phase \in {"fetch", "fetch_got"}
    BY <1>3 DEF ConnectTimedOut, ConnectRefused, FetchTimedOut, FetchAborted, FetchTaken,
       Unprintable, ReceiveFails, Goto, Finish, Connection
  <2> QED
    BY <2>1, <2>2, <2>3, DataQuiet DEF Connection, seenVars
<1>4. CASE ConnectGoesOn \/ Silence
  <2>1. /\ UNCHANGED <<response, acked>> /\ exit = 1
        /\ \/ phase \in {"connect", "connect_got"} /\ TickThenGoto("connect")
           \/ phase = "fetch" /\ TickThenGoto("fetch")
    BY <1>4 DEF ConnectGoesOn, Silence, ConnectSilence, FetchSilence, ClientTypeOK, responseVars
  <2>2. /\ app_next' = app_next /\ exit' # 0
        /\ \/ phase' = "done"
           \/ phase \in {"connect", "connect_got"} /\ phase' = "connect"
           \/ phase = "fetch" /\ phase' = "fetch"
    BY <2>1, TickFacts
  <2> QED
    BY <2>1, <2>2, DataQuiet DEF Connection
<1>5. ASSUME NEW s \in Segment, NEW d \in SegmentWaits, ConnectReceive(s, d) PROVE DataInv'
  <2>1. /\ phase = "connect" /\ phase' = "connect_got" /\ OnSegment(s) /\ state = "SYN_SENT"
        /\ receive_ready = <<>> /\ UNCHANGED <<response, acked, exit>> /\ exit = 1
    BY <1>5 DEF ConnectReceive, Goto, PhaseInv, RoomWheneverWaiting, ClientTypeOK, responseVars
  <2>2. state' = "ESTABLISHED" => app_next' = At(0)
    BY <2>1, ConnectSegment
  <2>3. response' = <<>> /\ Len(response') = 0
    BY <2>1, EmptySeq DEF DataInv
  <2>4. /\ response' = Bytes(At(0), Len(response')) /\ Len(response') <= StreamLen
        /\ \E a \in 0 .. StreamLen + 1 :
             acked' = At(a) /\ a <= Len(response') + IF Len(response') = StreamLen THEN 1 ELSE 0
    BY <2>1 DEF DataInv
  <2>5. Connection' => app_next' = At(Len(response'))
    BY <2>1, <2>2, <2>3 DEF Connection
  <2> QED
    BY <2>1, <2>3, <2>4, <2>5 DEF DataInv, Bytes, At
<1>6. CASE SendRequest
  BY <1>6, DataQuiet DEF SendRequest, BuildData, Emit, SendThenGoto, Goto, Finish, ClientTypeOK,
     Connection, responseVars
<1>7. ASSUME NEW s \in Segment, NEW d \in SegmentWaits, FetchReceive(s, d) PROVE DataInv'
  <2>1. /\ phase = "fetch" /\ phase' = "fetch_got" /\ OnSegment(s) /\ state = "ESTABLISHED"
        /\ UNCHANGED <<response, acked, exit>> /\ exit = 1
    BY <1>7 DEF FetchReceive, Goto, PhaseInv, ClientTypeOK, responseVars
  <2>2. app_next' = app_next
    BY <2>1, FetchSegment
  <2> QED
    BY <2>1, <2>2, DataQuiet DEF Connection
<1>8. CASE FetchContinue
  <2>1. /\ phase = "fetch_got" /\ Continue /\ UNCHANGED <<phase, response, acked, exit>> /\ exit = 1
    BY <1>8 DEF FetchContinue, cvars, ClientTypeOK, responseVars
  <2>2. app_next' = app_next
    BY <2>1, FetchRest DEF PhaseInv
  <2> QED
    BY <2>1, <2>2, DataQuiet DEF Connection
<1>9. CASE DrainStep \/ Connected \/ Drained \/ Printed
  BY <1>9, DrainData, AckData, PrintedData
<1> QED
  BY <1>1, <1>2, <1>3, <1>4, <1>5, <1>6, <1>7, <1>8, <1>9 DEF ClientNext, Compute, Receive, Silence
-----------------------------------------------------------------------------
(***************************************************************************)
(* The theorems.                                                           *)
(***************************************************************************)
\* A client that has just started satisfies the invariant.
LEMMA ClientInitial == ClientInit => ClientInv
<1> SUFFICES ASSUME ClientInit PROVE ClientInv
  OBVIOUS
<1> USE DEF ClientInit
<1>1. response \in Seq(SeqNum) /\ Len(response) = 0 /\ receive_ready = <<>>
  BY EmptySeq DEF Init
<1>2. /\ At(0) \in SeqNum /\ 0 \in 0 .. StreamLen + 1 /\ 0 \in SeqNum
      /\ 0 \in 0 .. TimerMax /\ 0 <= StreamLen
  BY AtOffset, StreamBounds, SeqModFacts, TimerAssumption DEF SeqNum
<1>3. /\ InitialCapacity \in Nat \ {0} /\ response_max \in Nat /\ InitialCapacity <= response_max
  BY ClientAssumption
<1>4. ClientTypeOK
  <2>1. ZeroSegment \in AnySegment
    BY <1>2, EngineAssumption DEF ZeroSegment, AnySegment, Flag
  <2>2. Len(response) + 1 <= response_capacity /\ response_capacity \in 1 .. response_max
    BY <1>1, <1>3
  <2> QED
    BY <1>1, <1>2, <2>1, <2>2 DEF ClientTypeOK, Phases, States
<1>5. PhaseInv
  BY DEF Init, PhaseInv, RoomWheneverWaiting
<1>6. DataInv
  <2>1. response = Bytes(At(0), 0)
    <3>1. Bytes(At(0), 0) \in Seq(SeqNum) /\ Len(Bytes(At(0), 0)) = 0
      BY <1>2, BytesType
    <3> QED
      BY <3>1, EmptySeq
  <2>2. acked = At(0) /\ 0 <= Len(response) + IF Len(response) = StreamLen THEN 1 ELSE 0
    BY <1>1
  <2> QED
    BY <1>1, <1>2, <2>1, <2>2 DEF DataInv, Connection
<1> QED
  BY <1>4, <1>5, <1>6 DEF ClientInv, TimerNotAheadOfClock

\* The invariant of the client.
THEOREM ClientInvariant == ClientSpec => []ClientInv
<1>1. EngineInv /\ ClientInv /\ [ClientNext]_hvars => ClientInv'
  BY ClientTypeStep, PhaseStep, DataStep, TimerStep DEF ClientInv, EngineInv
<1>2. ClientInit /\ [][ClientNext]_hvars /\ []EngineInv => []ClientInv
  BY <1>1, ClientInitial, PTL
<1> QED
  BY <1>2, EngineInvariant, PTL DEF ClientSpec

\* The client's state keeps its types; in particular append_response's doubling
\* loop always ends with a capacity that holds the response and its NUL and
\* does not exceed the maximum.
THEOREM ClientTypeCorrect == ClientSpec => []ClientTypeOK
<1>1. ClientInv => ClientTypeOK
  BY DEF ClientInv
<1> QED
  BY <1>1, ClientInvariant, PTL

\* run_http prints a prefix of what the server sent, and all of it when its
\* receive loop ended with the server's FIN.
THEOREM ResponseIsFaithfulHolds == ClientSpec => []ResponseIsFaithful
<1>1. ClientInv => ResponseIsFaithful
  BY DEF ClientInv, DataInv, ResponseIsFaithful
<1> QED
  BY <1>1, ClientInvariant, PTL

\* run_http succeeds with less than the whole response only after its deadline.
THEOREM PartialOnlyAfterDeadlineHolds == ClientSpec => []PartialOnlyAfterDeadline
<1>1. ClientInv => PartialOnlyAfterDeadline
  <2> SUFFICES ASSUME ClientInv, exit = 0, Len(response) < StreamLen PROVE clock > HttpTimeout
    BY DEF PartialOnlyAfterDeadline
  <2>1. Len(response) \in Nat /\ Len(response) # StreamLen
    BY LenProperties, StreamBounds DEF ClientInv, ClientTypeOK
  <2> QED
    BY <2>1 DEF ClientInv, DataInv
<1> QED
  BY <1>1, ClientInvariant, PTL

\* No byte of the server's is acknowledged before it is in the response, on any
\* path of connect_tcp and run_http.
THEOREM AckedIsStoredHolds == ClientSpec => []AckedIsStored
<1>1. ClientInv => AckedIsStored
  <2> SUFFICES ASSUME ClientInv PROVE AckedIsStored
    OBVIOUS
  <2> DEFINE stored == Len(response) + IF Len(response) = StreamLen THEN 1 ELSE 0
  <2>1. PICK a \in 0 .. StreamLen + 1 : acked = At(a) /\ a <= stored
    BY DEF ClientInv, DataInv
  <2>2. stored \in 0 .. StreamLen + 1
    BY LenProperties, StreamBounds DEF ClientInv, ClientTypeOK, DataInv
  <2> HIDE DEF stored
  <2>3. seq_le(At(a), At(stored))
    BY <2>1, <2>2, AtOrder
  <2> QED
    BY <2>1, <2>3 DEF AckedIsStored, stored
<1> QED
  BY <1>1, ClientInvariant, PTL

\* The client has emptied the engine's ready buffer whenever it waits.
THEOREM RoomWheneverWaitingHolds == ClientSpec => []RoomWheneverWaiting
<1>1. ClientInv => RoomWheneverWaiting
  BY DEF ClientInv, PhaseInv
<1> QED
  BY <1>1, ClientInvariant, PTL

\* In the receive loop the retransmission timer never runs ahead of real time.
THEOREM TimerNotAheadOfClockHolds == ClientSpec => []TimerNotAheadOfClock
<1>1. ClientInv => TimerNotAheadOfClock
  BY DEF ClientInv
<1> QED
  BY <1>1, ClientInvariant, PTL
==================================================================================
