------------------------------- MODULE MCTcpSend -------------------------------
(***************************************************************************)
(* The send path: every acknowledgment number, right or wrong, with timers *)
(* that expire early, late and saturated, and two connections on the same  *)
(* object.  The peer sends no data; its FIN comes where it is expected.    *)
(***************************************************************************)
EXTENDS TcpConnection

CONSTANT PeerIsn

MCSegment ==
  [seq : {PeerIsn}, ack : SeqNum, flags : {{"SYN", "ACK"}, {"SYN"}, {"RST"}}, len : {0}]
    \cup
  [seq : {SeqAdd(PeerIsn, 1)}, ack : SeqNum, flags : {{"ACK"}, {"FIN", "ACK"}}, len : {0}]
================================================================================
