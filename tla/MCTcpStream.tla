------------------------------ MODULE MCTcpStream ------------------------------
(***************************************************************************)
(* A short stream cut and ordered in every way, just before the wrap of    *)
(* the sequence space.                                                     *)
(***************************************************************************)
EXTENDS TcpStream

CONSTANT LocalIsn

MCInitialSequences == {LocalIsn}

\* The peer acknowledges the SYN, or the SYN and the FIN.
MCSegment ==
  {s \in [seq : SeqNum, ack : {SeqAdd(LocalIsn, 1), SeqAdd(LocalIsn, 2)},
          flags : {{"SYN", "ACK"}, {"ACK"}, {"ACK", "FIN"}}, len : 0 .. MaxPayload] :
     PeerSegment(s)}

\* The peer may also reset the connection.
MCResetSegment ==
  MCSegment \cup {[seq |-> PeerIsn, ack |-> LocalIsn, flags |-> {"RST"}, len |-> 0]}
================================================================================
