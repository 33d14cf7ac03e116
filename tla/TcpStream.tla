------------------------------- MODULE TcpStream -------------------------------
(***************************************************************************)
(* The connection engine against a peer that follows TCP: it sends one     *)
(* stream of StreamLen bytes after its SYN and closes it with one FIN, or  *)
(* resets the connection.  The network may lose, repeat, delay and reorder *)
(* its segments, and the peer may cut the stream into segments differently *)
(* each time it retransmits.                                               *)
(***************************************************************************)
EXTENDS TcpConnection

CONSTANTS
  PeerIsn,      \* the peer's initial sequence number
  StreamLen     \* bytes it sends before its FIN

\* Sequence number of the byte at offset k; the FIN is at offset StreamLen.
At(k) == SeqAdd(PeerIsn, k + 1)

PeerSynAck(s) == s.seq = PeerIsn /\ s.len = 0 /\ s.flags = {"SYN", "ACK"}

\* Part of the stream, the FIN with its last byte only; or an acknowledgment.
PeerData(s) ==
  \E k \in 0 .. StreamLen :
    /\ s.seq = At(k) /\ k + s.len <= StreamLen
    /\ s.flags \in {{"ACK"}, {"ACK", "FIN"}}
    /\ "FIN" \in s.flags => k + s.len = StreamLen

\* An acknowledgment after the FIN.
PeerLastAck(s) == s.seq = At(StreamLen + 1) /\ s.len = 0 /\ s.flags = {"ACK"}

PeerReset(s) == "RST" \in s.flags

PeerSegment(s) == PeerSynAck(s) \/ PeerData(s) \/ PeerLastAck(s) \/ PeerReset(s)

ASSUME StreamAssumption ==
  /\ PeerIsn \in SeqNum
  /\ StreamLen \in Nat /\ StreamLen + 2 < HalfSpace
  /\ \A s \in Segment : PeerSegment(s)
-----------------------------------------------------------------------------
Finished == {"CLOSE_WAIT", "LAST_ACK", "TIME_WAIT"}

\* A remembered FIN lies ahead of receive_next whenever a call has returned:
\* it is never skipped over, so it cannot be lost.
PendingFinAhead ==
  (pc = "idle" /\ opens = 1 /\ pending_fin = 1) =>
    pending_fin_sequence = At(StreamLen) /\ seq_gt(pending_fin_sequence, receive_next)
-----------------------------------------------------------------------------
(***************************************************************************)
(* The engine implements the abstract byte stream.  A byte's offset is its *)
(* distance from the first one; the stream is open from the handshake      *)
(* until the FIN is counted, and CLOSED is ended once the connection has   *)
(* been opened.                                                            *)
(***************************************************************************)
Offset(seq) == SeqSub(seq, At(0))

StreamPhase ==
  IF state = "RESET" THEN "reset"
  ELSE IF state \in Receiving THEN "open"
  ELSE IF state \in Finished \/ (state = "CLOSED" /\ opens = 1) THEN "ended"
  ELSE "closed"

\* receive_next has counted the FIN once the stream is ended.
Arrived ==
  CASE StreamPhase = "open"  -> Offset(receive_next)
    [] StreamPhase = "ended" -> Offset(receive_next) - 1
    [] OTHER                 -> 0

Abstract ==
  INSTANCE ByteStream WITH
    Length  <- StreamLen,
    phase   <- StreamPhase,
    arrived <- Arrived,
    ready   <- [k \in 1 .. Len(receive_ready) |-> Offset(receive_ready[k])]

\* Every call of tcp_connection_on_segment, _read, _tick and the builders is,
\* for the application, a step of the byte stream or nothing: no order, loss,
\* repetition or overlap of segments, no full buffer, close of our own or
\* reset shows it a byte twice, out of order, after the end or after a reset.
ImplementsByteStream == Abstract!StreamSpec
-----------------------------------------------------------------------------
(***************************************************************************)
(* Fairness.  A call, once begun, returns.  The peer retransmits what is   *)
(* not acknowledged and the network delivers it now and then; the client   *)
(* keeps reading.                                                          *)
(***************************************************************************)
NextInOrder(s) ==
  s.seq = receive_next /\ (s.len > 0 \/ "FIN" \in s.flags)

DeliverNextInOrder == \E s \in Segment : NextInOrder(s) /\ OnSegment(s)
ReadSome           == \E n \in ReadLens : Read(n)

FairSpec ==
  /\ Spec
  /\ WF_vars(Continue)
  /\ SF_vars(DeliverNextInOrder)
  /\ SF_vars(ReadSome)

\* All of the stream has reached the application and its end is known.
StreamDelivered ==
  app_next = At(StreamLen) /\ receive_ready = <<>> /\ receive_next = At(StreamLen + 1)

\* An open connection delivers the whole stream and its end, through full
\* slots and full ready buffers (the -2 paths of on_segment), out-of-order
\* arrivals and an active close on our side; it can only be reset before.
StreamCompletes == (state = "ESTABLISHED") ~> (StreamDelivered \/ state = "RESET")
================================================================================
