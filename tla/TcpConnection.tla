----------------------------- MODULE TcpConnection -----------------------------
(***************************************************************************)
(* The TCP connection engine (src/src/tcp_connection.c): one               *)
(* tcp_connection_t and the calls a client makes on it.                    *)
(*                                                                         *)
(* The engine is single-threaded and passive: a client builds segments,    *)
(* feeds it received ones, reports elapsed time and reads data.  Every     *)
(* call is one action, except tcp_connection_on_segment, whose loop over   *)
(* the reassembly slots is unrolled: the call starts with a Recv action    *)
(* and, while pc # "idle", only its own continuation may run.              *)
(*                                                                         *)
(* A payload byte is represented by the sequence number it was sent at, so *)
(* a buffer shows which bytes of the peer's stream it holds, in which      *)
(* order.  Ports, windows and the PSH flag do not influence the state:     *)
(* segments for other ports are refused with -1 and no change.             *)
(***************************************************************************)
EXTENDS SeqSpace, Sequences, FiniteSets

CONSTANTS
  SlotCount,          \* TCP_REASSEMBLY_SLOT_COUNT, 16
  SlotDataLen,        \* TCP_REASSEMBLY_SLOT_DATA_LEN, 2048
  ReadyCapacity,      \* TCP_RECEIVE_READY_CAPACITY, 32768
  MaxPayload,         \* longest payload tcp_build and tcp_parse accept
  DefaultRto,         \* TCP_DEFAULT_RTO_MS, 1000
  MaxRto,             \* TCP_MAX_RTO_MS, 16000
  RetransmitLimit,    \* TCP_DEFAULT_RETRANSMIT_LIMIT, 5
  TimerMax,           \* UINT32_MAX
  InitialSequences,   \* values of tcp_connection_init's initial_sequence
  Segment,            \* segments the network may hand to the connection
  Ticks,              \* arguments of tcp_connection_tick
  DataLens,           \* payload lengths given to tcp_connection_build_data
  ReadLens,           \* buffer lengths given to tcp_connection_read
  MaxOpens            \* bound: calls of tcp_connection_build_syn

Flag == {"SYN", "ACK", "FIN", "RST"}

AnySegment == [seq : SeqNum, ack : SeqNum, flags : SUBSET Flag, len : 0 .. MaxPayload]

ASSUME EngineAssumption ==
  /\ SlotCount \in Nat \ {0}
  /\ SlotDataLen \in Nat /\ SlotDataLen < HalfSpace
  /\ ReadyCapacity \in Nat /\ ReadyCapacity < HalfSpace
  /\ MaxPayload \in Nat /\ MaxPayload < HalfSpace
  /\ MaxOpens \in Nat

ASSUME TimerAssumption ==
  /\ DefaultRto \in Nat \ {0}
  /\ MaxRto \in Nat /\ DefaultRto <= MaxRto
  /\ TimerMax \in Nat /\ 2 * MaxRto <= TimerMax
  /\ RetransmitLimit \in Nat

ASSUME InputAssumption ==
  /\ InitialSequences \subseteq SeqNum
  /\ Segment \subseteq AnySegment
  /\ Ticks \subseteq 0 .. TimerMax
  /\ DataLens \subseteq 1 .. MaxPayload
  /\ ReadLens \subseteq Nat \ {0}

VARIABLES
  state, send_unacknowledged, send_next, receive_next,
  retransmit_timeout, retransmit_elapsed, retransmit_count,
  last_segment, has_retransmit_segment,
  reassembly, reassembly_count, receive_ready,
  pending_fin, pending_fin_sequence,
  \* The call of tcp_connection_on_segment in progress: where it is, whether
  \* its segment carries a FIN and where, and promote_reassembly's locals.
  pc, fin_flag, fin_sequence, slot_i, progress,
  \* What the last call returned.
  result,
  \* History: sequence number after the last byte read, number of opens,
  \* and whether the last promotion ran out of room.
  app_next, opens, stalled

sendVars    == <<send_unacknowledged, send_next, last_segment>>
timerVars   == <<retransmit_timeout, retransmit_elapsed, retransmit_count, has_retransmit_segment>>
queueVars   == <<reassembly, reassembly_count>>
finVars     == <<pending_fin, pending_fin_sequence>>
callVars    == <<pc, fin_flag, fin_sequence, slot_i, progress>>
vars == <<state, sendVars, receive_next, timerVars, queueVars, receive_ready, finVars,
          callVars, result, app_next, opens, stalled>>

States == {"CLOSED", "SYN_SENT", "ESTABLISHED", "FIN_WAIT_1", "FIN_WAIT_2",
           "CLOSE_WAIT", "LAST_ACK", "TIME_WAIT", "RESET"}

Slots       == 1 .. SlotCount
ZeroSegment == [seq |-> 0, ack |-> 0, flags |-> {}, len |-> 0]
FreeSlot    == [used |-> 0, sequence_number |-> 0, payload |-> <<>>]

\* The n bytes of the peer's stream that start at sequence number s.
Bytes(s, n) == [k \in 1 .. n |-> SeqAdd(s, k - 1)]

SlotEnd(slot)   == SeqAdd(slot.sequence_number, Len(slot.payload))
PayloadEnd(s)   == SeqAdd(s.seq, s.len)
-----------------------------------------------------------------------------
(***************************************************************************)
(* tcp_connection_init: memset to zero, then the defaults.                 *)
(***************************************************************************)
Init ==
  /\ state = "CLOSED"
  /\ send_next \in InitialSequences
  /\ send_unacknowledged = send_next
  /\ receive_next = 0
  /\ retransmit_timeout = DefaultRto
  /\ retransmit_elapsed = 0
  /\ retransmit_count = 0
  /\ last_segment = ZeroSegment
  /\ has_retransmit_segment = 0
  /\ reassembly = [i \in Slots |-> FreeSlot]
  /\ reassembly_count = 0
  /\ receive_ready = <<>>
  /\ pending_fin = 0
  /\ pending_fin_sequence = 0
  /\ pc = "idle" /\ fin_flag = 0 /\ fin_sequence = 0 /\ slot_i = 1 /\ progress = 0
  /\ result = 0
  /\ app_next = 0 /\ opens = 0 /\ stalled = 0
-----------------------------------------------------------------------------
(***************************************************************************)
(* Sending: tcp_connection_build_syn, _build_data and _build_fin.  Each    *)
(* puts one segment on the wire, takes it as the only outstanding one and  *)
(* restarts its timer; the retry count and the timeout are left as they    *)
(* are.                                                                    *)
(***************************************************************************)
SpaceUsed(s) == s.len + (IF "SYN" \in s.flags \/ "FIN" \in s.flags THEN 1 ELSE 0)

remember_for_retransmission(s) ==
  /\ last_segment' = s
  /\ has_retransmit_segment' = 1
  /\ retransmit_elapsed' = 0
  /\ UNCHANGED <<retransmit_timeout, retransmit_count>>

\* Fault: the sender keeps the old left edge, as if it tracked several segments.
EmitKeepsUnacknowledged(s) ==
  /\ UNCHANGED send_unacknowledged
  /\ send_next' = SeqAdd(send_next, SpaceUsed(s))
  /\ remember_for_retransmission(s)
  /\ result' = 0
  /\ UNCHANGED <<receive_next, queueVars, receive_ready, finVars, callVars, app_next, stalled>>

Emit(s) ==
  /\ send_unacknowledged' = send_next
  /\ send_next' = SeqAdd(send_next, SpaceUsed(s))
  /\ remember_for_retransmission(s)
  /\ result' = 0
  /\ UNCHANGED <<receive_next, queueVars, receive_ready, finVars, callVars, app_next, stalled>>

BuildSyn ==
  /\ pc = "idle" /\ state = "CLOSED" /\ opens < MaxOpens
  /\ Emit([seq |-> send_next, ack |-> 0, flags |-> {"SYN"}, len |-> 0])
  /\ state' = "SYN_SENT"
  /\ opens' = opens + 1

BuildData(n) ==
  /\ pc = "idle" /\ state = "ESTABLISHED"
  /\ Emit([seq |-> send_next, ack |-> receive_next, flags |-> {"ACK"}, len |-> n])
  /\ UNCHANGED <<state, opens>>

BuildFin ==
  /\ pc = "idle" /\ state \in {"ESTABLISHED", "CLOSE_WAIT"}
  /\ Emit([seq |-> send_next, ack |-> receive_next, flags |-> {"FIN", "ACK"}, len |-> 0])
  /\ state' = IF state = "CLOSE_WAIT" THEN "LAST_ACK" ELSE "FIN_WAIT_1"
  /\ UNCHANGED opens
-----------------------------------------------------------------------------
(***************************************************************************)
(* tcp_connection_tick.  Without an outstanding segment it does nothing.   *)
(***************************************************************************)
AdvanceTimer(elapsed, ms) ==
  IF ms > TimerMax - elapsed THEN TimerMax ELSE elapsed + ms

\* Fault: the timeout never grows.
BackOffConstant(rto) == rto

BackOff(rto) ==
  IF rto >= MaxRto THEN rto
  ELSE IF rto * 2 > MaxRto THEN MaxRto ELSE rto * 2

TickGuard == pc = "idle" /\ has_retransmit_segment = 1

TickFrame ==
  UNCHANGED <<sendVars, receive_next, queueVars, receive_ready, finVars, callVars,
              app_next, opens, stalled>>

TickWait(ms) ==
  /\ TickGuard
  /\ AdvanceTimer(retransmit_elapsed, ms) < retransmit_timeout
  /\ retransmit_elapsed' = AdvanceTimer(retransmit_elapsed, ms)
  /\ result' = 0
  /\ UNCHANGED <<state, retransmit_timeout, retransmit_count, has_retransmit_segment>>
  /\ TickFrame

TickRetransmit(ms) ==
  /\ TickGuard
  /\ AdvanceTimer(retransmit_elapsed, ms) >= retransmit_timeout
  /\ retransmit_count < RetransmitLimit
  /\ retransmit_count' = retransmit_count + 1
  /\ retransmit_elapsed' = 0
  /\ retransmit_timeout' = BackOff(retransmit_timeout)
  /\ result' = 1
  /\ UNCHANGED <<state, has_retransmit_segment>>
  /\ TickFrame

TickGiveUp(ms) ==
  /\ TickGuard
  /\ AdvanceTimer(retransmit_elapsed, ms) >= retransmit_timeout
  /\ retransmit_count >= RetransmitLimit
  /\ retransmit_elapsed' = AdvanceTimer(retransmit_elapsed, ms)
  /\ state' = "RESET"
  /\ has_retransmit_segment' = 0
  /\ result' = -1
  /\ UNCHANGED <<retransmit_timeout, retransmit_count>>
  /\ TickFrame

Tick(ms) == TickWait(ms) \/ TickRetransmit(ms) \/ TickGiveUp(ms)
-----------------------------------------------------------------------------
(***************************************************************************)
(* tcp_connection_read.  The history variable app_next is taken from the   *)
(* bytes that are handed over.                                             *)
(***************************************************************************)
Read(n) ==
  /\ pc = "idle" /\ receive_ready # <<>>
  /\ LET copy_len == IF Len(receive_ready) > n THEN n ELSE Len(receive_ready)
     IN  /\ receive_ready' = SubSeq(receive_ready, copy_len + 1, Len(receive_ready))
         /\ app_next' = SeqAdd(receive_ready[copy_len], 1)
         /\ result' = copy_len
  /\ UNCHANGED <<state, sendVars, receive_next, timerVars, queueVars, finVars, callVars,
                 opens, stalled>>
-----------------------------------------------------------------------------
(***************************************************************************)
(* tcp_connection_on_segment, first part: RST, acknowledgment, handshake   *)
(* and the states that take no data.                                       *)
(***************************************************************************)
RecvRst(s) ==
  /\ pc = "idle" /\ "RST" \in s.flags
  /\ state' = "RESET"
  /\ has_retransmit_segment' = 0
  /\ reassembly' = [i \in Slots |-> FreeSlot]
  /\ reassembly_count' = 0
  /\ receive_ready' = <<>>
  /\ pending_fin' = 0 /\ pending_fin_sequence' = 0
  /\ stalled' = 0
  /\ result' = 0
  /\ UNCHANGED <<sendVars, receive_next, retransmit_timeout, retransmit_elapsed,
                 retransmit_count, callVars, app_next, opens>>

\* Fault: a repeated acknowledgment counts as a new one.
AckAdvancesRepeated(s) ==
  /\ "ACK" \in s.flags
  /\ seq_ge(s.ack, send_unacknowledged)
  /\ seq_le(s.ack, send_next)

AckAdvances(s) ==
  /\ "ACK" \in s.flags
  /\ seq_gt(s.ack, send_unacknowledged)
  /\ seq_le(s.ack, send_next)

\* Fault: the timeout stays backed off after a full acknowledgment.
ProcessAckKeepsTimeout(s) ==
  /\ UNCHANGED <<send_next, last_segment, retransmit_timeout>>
  /\ IF AckAdvances(s)
     THEN /\ send_unacknowledged' = s.ack
          /\ retransmit_elapsed' = 0
          /\ retransmit_count' = 0
          /\ has_retransmit_segment' = IF s.ack = send_next THEN 0 ELSE has_retransmit_segment
     ELSE UNCHANGED <<send_unacknowledged, retransmit_elapsed, retransmit_count,
                      has_retransmit_segment>>

ProcessAck(s) ==
  /\ UNCHANGED <<send_next, last_segment>>
  /\ IF AckAdvances(s)
     THEN /\ send_unacknowledged' = s.ack
          /\ retransmit_elapsed' = 0
          /\ retransmit_count' = 0
          /\ IF s.ack = send_next
             THEN has_retransmit_segment' = 0 /\ retransmit_timeout' = DefaultRto
             ELSE UNCHANGED <<has_retransmit_segment, retransmit_timeout>>
     ELSE UNCHANGED <<send_unacknowledged, timerVars>>

Handshake(s) ==
  /\ pc = "idle" /\ state = "SYN_SENT"
  /\ "RST" \notin s.flags /\ {"SYN", "ACK"} \subseteq s.flags
  /\ s.ack = send_next
  /\ send_unacknowledged' = IF AckAdvances(s) THEN s.ack ELSE send_unacknowledged
  /\ receive_next' = SeqAdd(s.seq, 1)
  /\ state' = "ESTABLISHED"
  /\ has_retransmit_segment' = 0
  /\ retransmit_count' = 0
  /\ retransmit_elapsed' = 0
  /\ retransmit_timeout' = DefaultRto
  /\ app_next' = SeqAdd(s.seq, 1)
  /\ result' = 1
  /\ UNCHANGED <<send_next, last_segment, queueVars, receive_ready, finVars, callVars,
                 opens, stalled>>

DataStates == {"ESTABLISHED", "FIN_WAIT_1", "FIN_WAIT_2", "CLOSE_WAIT", "LAST_ACK"}

\* No handshake, or a state without data: only the acknowledgment counts.
RecvAckOnly(s) ==
  /\ pc = "idle" /\ "RST" \notin s.flags /\ state \notin DataStates
  /\ ProcessAck(s)
  /\ \/ /\ state = "SYN_SENT" /\ {"SYN", "ACK"} \subseteq s.flags
        /\ s.ack # send_next
        /\ result' = -1
     \/ /\ ~(state = "SYN_SENT" /\ {"SYN", "ACK"} \subseteq s.flags)
        /\ result' = 0
  /\ UNCHANGED <<state, receive_next, queueVars, receive_ready, finVars, callVars,
                 app_next, opens, stalled>>
-----------------------------------------------------------------------------
(***************************************************************************)
(* tcp_connection_on_segment, second part: process_payload.  The segment   *)
(* is old, in the future, or extends the contiguous data.                  *)
(***************************************************************************)
DataGuard(s) == pc = "idle" /\ "RST" \notin s.flags /\ state \in DataStates

Old(s)      == s.len = 0 \/ seq_le(PayloadEnd(s), receive_next)
Future(s)   == ~Old(s) /\ seq_gt(s.seq, receive_next)
InOrder(s)  == ~Old(s) /\ ~seq_gt(s.seq, receive_next)

range_already_buffered(start, end) ==
  \E i \in Slots : /\ reassembly[i].used = 1
                   /\ seq_ge(start, reassembly[i].sequence_number)
                   /\ seq_le(end, SlotEnd(reassembly[i]))

\* Fault: the search stops at the last slot, free or not.
find_free_slot_unchecked(i) ==
  (reassembly[i].used = 0 \/ i = SlotCount) /\ \A j \in 1 .. i - 1 : reassembly[j].used = 1

find_free_reassembly_slot(i) ==
  reassembly[i].used = 0 /\ \A j \in 1 .. i - 1 : reassembly[j].used = 1

\* Fault: room is compared with the capacity, not with what is left of it.
ready_append_fits_empty(n) == n <= ReadyCapacity

\* Fault: the buffer is never filled completely.
ready_append_fits_strictly(n) == n < ReadyCapacity - Len(receive_ready)

ready_append_fits(n) == n <= ReadyCapacity - Len(receive_ready)

\* The call goes on at `where'; `return' ends it.
continue(where, s) ==
  /\ pc' = where /\ slot_i' = 1 /\ progress' = 0 /\ result' = 0
  /\ fin_flag' = IF "FIN" \in s.flags THEN 1 ELSE 0
  /\ fin_sequence' = IF "FIN" \in s.flags THEN PayloadEnd(s) ELSE 0

return(code) ==
  /\ pc' = "idle" /\ slot_i' = 1 /\ progress' = 0 /\ result' = code
  /\ fin_flag' = 0 /\ fin_sequence' = 0

RecvFrame == UNCHANGED <<state, finVars, app_next, opens, stalled>>

\* No payload, a retransmission, or a future range that is buffered already.
RecvNothingNew(s) ==
  /\ DataGuard(s)
  /\ \/ Old(s)
     \/ /\ Future(s) /\ s.len <= SlotDataLen
        /\ range_already_buffered(s.seq, PayloadEnd(s))
  /\ ProcessAck(s)
  /\ continue("fin", s)
  /\ UNCHANGED <<receive_next, queueVars, receive_ready>> /\ RecvFrame

buffer_future_payload(s) ==
  /\ DataGuard(s) /\ Future(s)
  /\ s.len <= SlotDataLen
  /\ ~range_already_buffered(s.seq, PayloadEnd(s))
  /\ \E i \in Slots :
       /\ find_free_reassembly_slot(i)
       /\ reassembly' = [reassembly EXCEPT ![i] =
            [used |-> 1, sequence_number |-> s.seq, payload |-> Bytes(s.seq, s.len)]]
  /\ reassembly_count' = reassembly_count + 1
  /\ ProcessAck(s)
  /\ continue("fin", s)
  /\ UNCHANGED <<receive_next, receive_ready>> /\ RecvFrame

\* Return -2: the segment fits neither a slot nor the ready buffer.
RecvNoCapacity(s) ==
  /\ DataGuard(s)
  /\ \/ /\ Future(s)
        /\ \/ s.len > SlotDataLen
           \/ /\ ~range_already_buffered(s.seq, PayloadEnd(s))
              /\ \A i \in Slots : reassembly[i].used = 1
     \/ /\ InOrder(s)
        /\ ~ready_append_fits(s.len - SeqSub(receive_next, s.seq))
  /\ ProcessAck(s)
  /\ return(-2)
  /\ UNCHANGED <<receive_next, queueVars, receive_ready>> /\ RecvFrame

\* Fault: the overlapping prefix is kept.
ClipNothing(payload, overlap) == payload

Clip(payload, overlap) == SubSeq(payload, overlap + 1, Len(payload))

RecvInOrder(s) ==
  /\ DataGuard(s) /\ InOrder(s)
  /\ LET overlap == SeqSub(receive_next, s.seq)
         new_len == s.len - overlap
     IN  /\ ready_append_fits(new_len)
         /\ receive_ready' = receive_ready \o Clip(Bytes(s.seq, s.len), overlap)
         /\ receive_next' = SeqAdd(receive_next, new_len)
  /\ ProcessAck(s)
  /\ continue("promote", s)
  /\ UNCHANGED queueVars /\ RecvFrame
-----------------------------------------------------------------------------
(***************************************************************************)
(* promote_reassembly: scan the slots until a whole pass changes nothing.  *)
(* Each iteration of the for loop is one step.                             *)
(***************************************************************************)
remove_reassembly_slot(i) ==
  /\ reassembly' = [reassembly EXCEPT ![i] = FreeSlot]
  /\ reassembly_count' = IF reassembly_count > 0 THEN reassembly_count - 1 ELSE reassembly_count

Scanning == pc = "promote" /\ slot_i <= SlotCount

Obsolete(slot)   == slot.used = 1 /\ seq_le(SlotEnd(slot), receive_next)
Contiguous(slot) == /\ slot.used = 1 /\ ~Obsolete(slot)
                    /\ ~seq_gt(slot.sequence_number, receive_next)
NewLen(slot)     == Len(slot.payload) - SeqSub(receive_next, slot.sequence_number)

ScanFrame ==
  UNCHANGED <<state, sendVars, timerVars, finVars, pc, fin_flag, fin_sequence, result,
              app_next, opens, stalled>>

PromoteSkip ==
  /\ Scanning
  /\ ~Obsolete(reassembly[slot_i]) /\ ~Contiguous(reassembly[slot_i])
  /\ slot_i' = slot_i + 1
  /\ UNCHANGED <<progress, receive_next, queueVars, receive_ready>> /\ ScanFrame

PromoteObsolete ==
  /\ Scanning /\ Obsolete(reassembly[slot_i])
  /\ remove_reassembly_slot(slot_i)
  /\ progress' = 1
  /\ slot_i' = slot_i + 1
  /\ UNCHANGED <<receive_next, receive_ready>> /\ ScanFrame

PromoteDeliver ==
  /\ Scanning
  /\ LET slot == reassembly[slot_i]
     IN  /\ Contiguous(slot) /\ ready_append_fits(NewLen(slot))
         /\ receive_ready' = receive_ready \o
              Clip(slot.payload, SeqSub(receive_next, slot.sequence_number))
         /\ receive_next' = SeqAdd(receive_next, NewLen(slot))
  /\ remove_reassembly_slot(slot_i)
  /\ progress' = 1
  /\ slot_i' = slot_i + 1
  /\ ScanFrame

\* ready_append fails: on_segment returns -2, the slot stays.
PromoteNoCapacity ==
  /\ Scanning /\ Contiguous(reassembly[slot_i])
  /\ ~ready_append_fits(NewLen(reassembly[slot_i]))
  /\ return(-2)
  /\ stalled' = 1
  /\ UNCHANGED <<state, sendVars, receive_next, timerVars, queueVars, receive_ready, finVars,
                 app_next, opens>>

\* Fault: there is no second pass.
PromoteOnePass ==
  /\ pc = "promote" /\ slot_i > SlotCount /\ progress = 1
  /\ slot_i' = slot_i /\ progress' = 0
  /\ UNCHANGED <<receive_next, queueVars, receive_ready>> /\ ScanFrame

PromoteRescan ==
  /\ pc = "promote" /\ slot_i > SlotCount /\ progress = 1
  /\ slot_i' = 1 /\ progress' = 0
  /\ UNCHANGED <<receive_next, queueVars, receive_ready>> /\ ScanFrame
-----------------------------------------------------------------------------
(***************************************************************************)
(* FIN handling, as functions of the part of the connection it changes.    *)
(***************************************************************************)
Receiver == [next |-> receive_next, state |-> state,
             pending |-> pending_fin, pending_seq |-> pending_fin_sequence]

SetReceiver(r) ==
  /\ receive_next' = r.next
  /\ pending_fin' = r.pending /\ pending_fin_sequence' = r.pending_seq

AfterFin(st) ==
  IF st = "ESTABLISHED" THEN "CLOSE_WAIT"
  ELSE IF st \in {"FIN_WAIT_1", "FIN_WAIT_2"} THEN "TIME_WAIT" ELSE st

\* Fault: a remembered FIN is only looked at when another FIN arrives.
consume_no_pending_fin(r) == r

consume_pending_fin(r) ==
  IF r.pending = 1 /\ r.pending_seq = r.next
  THEN [next |-> SeqAdd(r.next, 1), state |-> AfterFin(r.state),
        pending |-> 0, pending_seq |-> r.pending_seq]
  ELSE r

\* Fault: a FIN is taken wherever it is.
process_fin_anywhere(r, flag, seq) ==
  IF flag = 0 THEN r
  ELSE [r EXCEPT !.next = SeqAdd(seq, 1), !.state = AfterFin(r.state)]

process_fin(r, flag, seq) ==
  IF flag = 0 THEN r
  ELSE IF seq = r.next
  THEN [r EXCEPT !.next = SeqAdd(r.next, 1), !.state = AfterFin(r.state)]
  ELSE IF seq_gt(seq, r.next) /\ (r.pending = 0 \/ seq_lt(seq, r.pending_seq))
  THEN [r EXCEPT !.pending = 1, !.pending_seq = seq]
  ELSE r

\* The end of promote_reassembly.
PromoteDone ==
  /\ pc = "promote" /\ slot_i > SlotCount /\ progress = 0
  /\ LET r == consume_pending_fin(Receiver)
     IN  SetReceiver(r) /\ state' = r.state
  /\ stalled' = 0
  /\ pc' = "fin" /\ slot_i' = 1
  /\ UNCHANGED <<sendVars, timerVars, queueVars, receive_ready, fin_flag, fin_sequence, progress,
                 result, app_next, opens>>

\* tcp_connection_on_segment, last part.
\* Fault: any segment ends FIN_WAIT_1, acknowledged or not.
AfterAckUnchecked(st) ==
  IF st = "FIN_WAIT_1" THEN "FIN_WAIT_2"
  ELSE IF st = "LAST_ACK" /\ send_unacknowledged = send_next THEN "CLOSED" ELSE st

AfterAck(st) ==
  IF send_unacknowledged # send_next THEN st
  ELSE IF st = "FIN_WAIT_1" THEN "FIN_WAIT_2"
  ELSE IF st = "LAST_ACK" THEN "CLOSED" ELSE st

FinishSegment ==
  /\ pc = "fin"
  /\ LET r == consume_pending_fin(process_fin(Receiver, fin_flag, fin_sequence))
     IN  /\ SetReceiver(r)
         /\ state' = AfterAck(r.state)
         /\ has_retransmit_segment' =
              IF AfterAck(r.state) = "CLOSED" THEN 0 ELSE has_retransmit_segment
  /\ return(0)
  /\ UNCHANGED <<sendVars, retransmit_timeout, retransmit_elapsed, retransmit_count,
                 queueVars, receive_ready, app_next, opens, stalled>>
-----------------------------------------------------------------------------
OnSegment(s) ==
  \/ RecvRst(s) \/ Handshake(s) \/ RecvAckOnly(s)
  \/ RecvNothingNew(s) \/ buffer_future_payload(s) \/ RecvNoCapacity(s) \/ RecvInOrder(s)

Promote == \/ PromoteSkip \/ PromoteObsolete \/ PromoteDeliver \/ PromoteNoCapacity
           \/ PromoteRescan \/ PromoteDone

\* The rest of a call that has begun.
Continue == Promote \/ FinishSegment

Next ==
  \/ BuildSyn \/ BuildFin
  \/ \E n \in DataLens : BuildData(n)
  \/ \E ms \in Ticks : Tick(ms)
  \/ \E n \in ReadLens : Read(n)
  \/ \E s \in Segment : OnSegment(s)
  \/ Continue

Spec == Init /\ [][Next]_vars
-----------------------------------------------------------------------------
(***************************************************************************)
(* Properties.                                                             *)
(***************************************************************************)
BufferedSlot == [used : {0, 1}, sequence_number : SeqNum, payload : Seq(SeqNum)]

\* Every field of tcp_connection_t keeps its range: in particular no buffer
\* outgrows its array and no counter wraps, whatever is received.
TypeOK ==
  /\ state \in States
  /\ send_unacknowledged \in SeqNum /\ send_next \in SeqNum /\ receive_next \in SeqNum
  /\ retransmit_timeout \in DefaultRto .. MaxRto
  /\ retransmit_elapsed \in 0 .. TimerMax
  /\ retransmit_count \in 0 .. RetransmitLimit
  /\ last_segment \in AnySegment /\ has_retransmit_segment \in {0, 1}
  /\ reassembly \in [Slots -> BufferedSlot]
  /\ \A i \in Slots : Len(reassembly[i].payload) <= SlotDataLen
  /\ reassembly_count \in Nat
  /\ receive_ready \in Seq(SeqNum) /\ Len(receive_ready) <= ReadyCapacity
  /\ pending_fin \in {0, 1} /\ pending_fin_sequence \in SeqNum
  /\ pc \in {"idle", "promote", "fin"} /\ fin_flag \in {0, 1} /\ fin_sequence \in SeqNum
  /\ slot_i \in 1 .. SlotCount + 1 /\ progress \in {0, 1}
  /\ result \in Int
  /\ app_next \in SeqNum /\ opens \in 0 .. MaxOpens /\ stalled \in {0, 1}

\* The states in which the peer's FIN has not been taken yet.
Receiving == {"ESTABLISHED", "FIN_WAIT_1", "FIN_WAIT_2"}

\* Whatever segments arrive, in whatever order, overlapping or repeated: the
\* ready buffer holds exactly the bytes of the peer's stream from the first
\* unread one up to receive_next, in order, each once (process_payload,
\* promote_reassembly, tcp_connection_read), as long as the connection object
\* has been opened once.
StreamIntegrity ==
  (opens = 1 /\ state \in Receiving) =>
    /\ receive_ready = Bytes(app_next, Len(receive_ready))
    /\ receive_next = SeqAdd(app_next, Len(receive_ready))

\* tcp_connection_reassembly_count reports the slots in use: the counter and
\* the flags, kept separately, agree even in the middle of a promotion.
ReassemblyAccounting ==
  reassembly_count = Cardinality({i \in Slots : reassembly[i].used = 1})

\* Between calls no buffered segment is deliverable: promote_reassembly's
\* rescan leaves only segments that start after a gap, unless it ran out of
\* room in the ready buffer.
NoStrandedSegment ==
  (pc = "idle" /\ opens = 1 /\ state \in Receiving /\ stalled = 0) =>
    \A i \in Slots : reassembly[i].used = 1 => seq_gt(reassembly[i].sequence_number, receive_next)

\* "Future TCP segments live here until all sequence-space bytes before them
\* have arrived": the same without the exception for a full ready buffer.
QueueHoldsFutureOnly ==
  (pc = "idle" /\ opens = 1 /\ state \in Receiving) =>
    \A i \in Slots : reassembly[i].used = 1 => seq_gt(reassembly[i].sequence_number, receive_next)

\* The sequence numbers some slot holds.
Buffered ==
  UNION {{reassembly[i].payload[k] : k \in 1 .. Len(reassembly[i].payload)} : i \in Slots}

\* "Overlapping future segments are allowed unless the new segment is
\* completely contained inside existing buffered data" (buffer_future_payload):
\* a slot is taken only for a segment with a byte that no slot holds yet.
ContainedIsNotStored ==
  [][\A i \in Slots : (reassembly[i].used = 0 /\ reassembly'[i].used = 1) =>
       \E k \in 1 .. Len(reassembly'[i].payload) : reassembly'[i].payload[k] \notin Buffered]_vars

\* Data that the peer has not acknowledged is always covered by the segment
\* kept for retransmission, and by nothing but that segment: on_segment
\* disarms the timer exactly when everything sent is acknowledged.
OutstandingIsRetransmittable ==
  state # "RESET" =>
    /\ has_retransmit_segment = 1 <=> send_unacknowledged # send_next
    /\ has_retransmit_segment = 1 =>
         /\ send_next = SeqAdd(last_segment.seq, SpaceUsed(last_segment))
         /\ SeqSub(send_unacknowledged, last_segment.seq) < SpaceUsed(last_segment)

\* A segment sent when nothing is outstanding has the whole retry budget and
\* the shortest timeout: no path of on_segment that acknowledges everything
\* forgets to reset what tcp_connection_tick counted.
FreshRetryBudget ==
  send_unacknowledged = send_next =>
    retransmit_count = 0 /\ retransmit_timeout = DefaultRto

\* The default timeout, doubled n times.
BackedOff[n \in Nat] == IF n = 0 THEN DefaultRto ELSE 2 * BackedOff[n - 1]

\* Every retry doubles the timeout up to the maximum (tcp_connection_tick).
BackoffHonoured ==
  retransmit_timeout >= MaxRto \/ retransmit_timeout >= BackedOff[retransmit_count]

\* FIN_WAIT_2 and CLOSED are entered only when all that was sent, the FIN
\* included, has been acknowledged (end of on_segment).
CloseMeansAcknowledged ==
  state \in {"FIN_WAIT_2", "CLOSED"} => send_unacknowledged = send_next
-----------------------------------------------------------------------------
(***************************************************************************)
(* Fairness: a call, once begun, returns, and the client reports elapsed   *)
(* time again and again.                                                   *)
(***************************************************************************)
PassTime == \E ms \in Ticks \ {0} : Tick(ms)

TimedSpec == Spec /\ WF_vars(Continue) /\ SF_vars(PassTime)

\* A segment does not stay outstanding for ever: it is acknowledged, given up
\* (RESET) or followed by another, even if partial or bogus acknowledgments
\* keep restarting the timer and the retry count.
RetransmissionSettles ==
  \A n \in SeqNum : (has_retransmit_segment = 1 /\ send_next = n) ~>
                     (has_retransmit_segment = 0 \/ send_next # n)
================================================================================
