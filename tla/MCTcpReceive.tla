------------------------------ MODULE MCTcpReceive ------------------------------
(***************************************************************************)
(* The receive path under arbitrary segments: every sequence number, every *)
(* length, with and without FIN, in a sequence space of eight numbers in   *)
(* which the stream starts just before the wrap.                           *)
(***************************************************************************)
EXTENDS TcpConnection

CONSTANTS PeerIsn, LocalIsn, FinPlaces

MCInitialSequences == {LocalIsn}

SynAck == [seq |-> PeerIsn, ack |-> SeqAdd(LocalIsn, 1), flags |-> {"SYN", "ACK"}, len |-> 0]
Reset  == [seq |-> 0, ack |-> 0, flags |-> {"RST"}, len |-> 0]

Data == [seq : SeqNum, ack : {SeqAdd(LocalIsn, 1)}, flags : {{"ACK"}}, len : 0 .. MaxPayload]

\* A FIN may sit at two places, in conflict with each other and with data.
Fins == [seq : SeqNum, ack : {SeqAdd(LocalIsn, 1)}, flags : {{"ACK", "FIN"}}, len : 0 .. MaxPayload]

MCSegment == {SynAck, Reset} \cup Data \cup {s \in Fins : PayloadEnd(s) \in FinPlaces}

\* Bound: the search stops where the peer's FIN has been taken.
UntilFin == state \notin {"CLOSE_WAIT", "LAST_ACK"}
================================================================================
