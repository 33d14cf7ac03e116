------------------------------- MODULE MCFramePath -------------------------------
(***************************************************************************)
(* Every kind of packet: for the listener and for others, with an odd and  *)
(* an even payload, with options, as long as a frame allows and one byte   *)
(* longer, a datagram whose checksum comes out as 0, and one in whose      *)
(* payload another one lies.                                               *)
(***************************************************************************)
EXTENDS FramePath

IpSelf  == <<192, 168, 255, 255>>
IpPeer  == <<10, 254, 0, 53>>
IpOther == <<10, 254, 0, 54>>
MacPeer == <<2, 0, 0, 0, 0, 2>>
MacSelf == <<2, 0, 0, 0, 0, 1>>
PortPeer == 53
PortSelf == 65535
Id == 16962

Bytes(n) == [i \in 1 .. n |-> (i * 83 + 172) % 256]

Msg(kind, from, to, packet) == [kind |-> kind, from |-> from, to |-> to, packet |-> packet]

Segment(sport, payload) ==
  tcp_build(sport, PortSelf, <<65535, 65280>>, <<0, 1>>, 24, 64240, payload)

Tcps ==
  {Msg("tcp", IpPeer, IpSelf, Segment(PortPeer, Bytes(n))) : n \in {0, 3, 16, 17}}
  \cup {Msg("tcp", IpPeer, IpSelf,
            [Segment(PortPeer, Bytes(3)) EXCEPT !.data_offset = 6, !.options = <<2, 4, 5, 180>>]),
        Msg("tcp", IpPeer, IpSelf, Segment(PortPeer + 1, Bytes(2))),
        Msg("tcp", IpOther, IpSelf, Segment(PortPeer, Bytes(1))),
        Msg("tcp", IpPeer, IpOther, Segment(PortPeer, Bytes(1)))}

\* The two bytes that bring the sum to all ones.
ZeroSumPayload ==
  write_u16_be(udp_sum(IpPeer, IpSelf,
                       udp_serialize(udp_build(PortPeer, PortSelf, <<0, 0>>), MaxPacketLen)))

\* Behind a header of 32 bytes, 3 words too long, this is a datagram without
\* checksum, and the last two bytes make the sum of that header come out right.
Nested == <<1, 2, 3, 4, 0, PortPeer, 255, 255, 0, 10, 0, 0, 54, 190>>

Udps ==
  {Msg("udp", IpPeer, IpSelf, udp_build(PortPeer, PortSelf, p)) :
     p \in {<<>>, Bytes(1), Bytes(28), Bytes(29), ZeroSumPayload, Nested}}
  \cup {Msg("udp", IpPeer, IpSelf, udp_build(PortPeer, PortSelf - 1, Bytes(2))),
        Msg("udp", IpOther, IpSelf, udp_build(PortPeer, PortSelf, Bytes(2)))}

Icmps ==
  {Msg("icmp", IpPeer, IpSelf, icmp_build_echo_reply(Id, s, Bytes(n))) :
     s \in {1, 2}, n \in {0, 5, 28, 29}}
  \cup {Msg("icmp", IpPeer, IpSelf, icmp_build_echo_request(Id, 1, Bytes(5)))}

Arps ==
  {Msg("arp", ip, IpSelf, arp_build_reply(MacPeer, ip, MacSelf, IpSelf)) : ip \in {IpPeer, IpOther}}
  \cup {Msg("arp", IpPeer, IpSelf, arp_build_request(MacPeer, IpPeer, IpSelf))}

AllMessages == Tcps \cup Udps \cup Icmps \cup Arps
================================================================================
