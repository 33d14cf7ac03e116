------------------------------ MODULE MCHttpClient ------------------------------
(***************************************************************************)
(* The HTTP client and a server that may be slow, silent, reset the        *)
(* connection, or deliver its response in any order.                       *)
(***************************************************************************)
EXTENDS HttpClient

CONSTANT LocalIsn

MCInitialSequences == {LocalIsn}

\* The server acknowledges nothing, the SYN, or the SYN and the request.
MCSegment ==
  {s \in [seq : SeqNum, ack : {LocalIsn, SeqAdd(LocalIsn, 1), SeqAdd(LocalIsn, 1 + RequestLen)},
          flags : {{"SYN", "ACK"}, {"ACK"}, {"ACK", "FIN"}}, len : 0 .. MaxPayload] :
     PeerSegment(s)}
  \cup {[ZeroSegment EXCEPT !.flags = {"RST"}]}
==================================================================================
