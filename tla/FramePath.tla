-------------------------------- MODULE FramePath --------------------------------
(***************************************************************************)
(* One message between two hosts of this stack: a tool's packet is         *)
(* encapsulated the way send_tcp_segment, send_dns_query, send_ping and    *)
(* resolve_arp do, the frame is padded, damaged or cut on its way, and the *)
(* receive loop of a tool takes it apart and accepts or ignores it.        *)
(*                                                                         *)
(* The network may change any one byte of a frame after the hardware has   *)
(* checked its FCS, and may deliver only its first bytes.                  *)
(***************************************************************************)
EXTENDS Ethernet, Arp, Ipv4, Icmp, Udp, Tcp

CONSTANTS
  Messages,            \* what may be sent: [kind, from, to, packet]
  Self, Peer,          \* the listening host's address and the one it expects
  SelfPort, PeerPort,  \* DNS_ and HTTP_SOURCE_PORT, DNS_ and HTTP_DESTINATION_PORT
  Identifier, Sequence,
  EthernetMinPayload,  \* the payload that hardware pads short frames to, 46
  ReceiveBufferSize,   \* RECEIVE_BUFFER_SIZE, 2048
  DamageBy             \* what is added to a damaged byte, modulo 256

\* Short frames are padded to no more than the longest payload, an IPv4 packet may be
\* longer than that, and a receive buffer takes any frame.
ASSUME FramePathAssumption ==
  /\ EthernetMinPayload \in 0 .. EthernetMaxPayload /\ EthernetMaxPayload <= MaxPacketLen
  /\ ReceiveBufferSize \in Nat /\ ReceiveBufferSize >= ETHERNET_HEADER_LEN + EthernetMaxPayload
  /\ DamageBy \subseteq 1 .. 255

\* The packets that the builders make.
Word        == {n \in Nat : n <= 65535}
IsMac(a)    == a \in Seq(Byte) /\ Len(a) = ARP_HARDWARE_ADDR_LEN
IsIp(a)     == a \in Seq(Byte) /\ Len(a) = ARP_PROTOCOL_ADDR_LEN
TcpPacket   == [rc : {0}, source_port : Word, destination_port : Word,
                sequence_number : Word \X Word, acknowledgment_number : Word \X Word,
                data_offset : 5 .. 15, flags : Byte, window_size : Word, checksum : Word,
                urgent_pointer : Word, options : Seq(Byte), payload : Seq(Byte)]
UdpPacket   == [rc : {0}, source_port : Word, destination_port : Word, length : Word,
                checksum : Word, payload : Seq(Byte)]
IcmpPacket  == [rc : {0}, type : EchoTypes, code : {ICMP_CODE_ECHO}, checksum : Word,
                identifier : Word, sequence : Word, payload : Seq(Byte)]
ArpPacket   == [rc : {0}, hardware_type : {ARP_ETHERNET}, protocol_type : {ARP_PROTOCOL_IPV4},
                hardware_addr_len : {ARP_HARDWARE_ADDR_LEN},
                protocol_addr_len : {ARP_PROTOCOL_ADDR_LEN},
                opcode : {ARP_OPCODE_REQUEST, ARP_OPCODE_REPLY}, sender_mac : Seq(Byte),
                sender_ip : Seq(Byte), target_mac : Seq(Byte), target_ip : Seq(Byte)]

IsMessage(m) ==
  /\ IsIp(m.from) /\ IsIp(m.to)
  /\ \/ /\ m.kind = "tcp" /\ m.packet \in TcpPacket
        /\ Len(m.packet.options) = 4 * m.packet.data_offset - TCP_MIN_HEADER_LEN
     \/ /\ m.kind = "udp" /\ m.packet \in UdpPacket
        /\ m.packet.length = UDP_HEADER_LEN + Len(m.packet.payload)
     \/ m.kind = "icmp" /\ m.packet \in IcmpPacket
     \/ /\ m.kind = "arp" /\ m.packet \in ArpPacket
        /\ IsMac(m.packet.sender_mac) /\ IsMac(m.packet.target_mac)
        /\ m.packet.sender_ip = m.from /\ m.packet.target_ip = m.to

ASSUME MessageAssumption == \A m \in Messages : IsMessage(m)

Listener == {"tcp", "udp", "icmp", "arp"}

VARIABLES
  phase,      \* "idle", "wire", "unsent" when a serializer returned 0, "received"
  sent,       \* the message
  frame,      \* its frame, as the network has it
  altered,    \* what the network did to it
  listener,   \* the loop that received it
  accepted    \* the packet that loop took, rc not 0 if it went on waiting

fvars == <<phase, sent, frame, altered, listener, accepted>>

FrameInit ==
  /\ phase = "idle" /\ sent \in Messages /\ frame = <<>> /\ altered = "intact"
  /\ listener \in Listener /\ accepted = Fail(-1)
-----------------------------------------------------------------------------
NextHopMac == <<2, 0, 0, 0, 0, 1>>
Broadcast  == <<255, 255, 255, 255, 255, 255>>

\* The frame that goes out, or <<>> where one of the steps fails.
ethernet_frame(destination, ethertype, payload) ==
  IF payload = <<>> THEN <<>>
  ELSE ethernet_serialize(
         [destination |-> destination, source |-> <<2, 0, 0, 0, 0, 2>>,
          ethertype |-> ethertype, payload |-> payload],
         ETHERNET_HEADER_LEN + EthernetMaxPayload)

ipv4_frame(m, protocol, bytes, identification) ==
  LET ip == ipv4_build(m.from, m.to, protocol, bytes, 64, identification)
  IN  IF bytes = <<>> \/ ip.rc # 0 THEN <<>>
      ELSE ethernet_frame(NextHopMac, ETHERNET_TYPE_IPV4, ipv4_serialize(ip, EthernetMaxPayload))

Transmit(kind, bytes) ==
  /\ phase = "idle" /\ sent.kind = kind
  /\ frame' = bytes
  /\ phase' = IF bytes = <<>> THEN "unsent" ELSE "wire"
  /\ UNCHANGED <<sent, altered, listener, accepted>>

send_tcp_segment ==
  Transmit("tcp", ipv4_frame(sent, IPV4_PROTOCOL_TCP,
    tcp_serialize_ipv4(sent.packet, sent.from, sent.to, EthernetMaxPayload), 18516))

send_dns_query ==
  Transmit("udp", ipv4_frame(sent, IPV4_PROTOCOL_UDP,
    udp_serialize_ipv4(sent.packet, sent.from, sent.to, MaxPacketLen), 17486))

send_ping ==
  Transmit("icmp", ipv4_frame(sent, IPV4_PROTOCOL_ICMP,
                              icmp_serialize(sent.packet, MaxPacketLen), 4919))

resolve_arp ==
  Transmit("arp", ethernet_frame(Broadcast, ETHERNET_TYPE_ARP,
                                 arp_serialize(sent.packet, ARP_PACKET_LEN)))
-----------------------------------------------------------------------------
\* The network.  Padding need not be zeros.
Alter(how, bytes) ==
  /\ phase = "wire"
  /\ frame' = bytes /\ altered' = how
  /\ UNCHANGED <<phase, sent, listener, accepted>>

Pad ==
  /\ altered = "intact" /\ Len(frame) < ETHERNET_HEADER_LEN + EthernetMinPayload
  /\ Alter("padded", frame \o
       [i \in 1 .. (ETHERNET_HEADER_LEN + EthernetMinPayload - Len(frame)) |-> 170])

Damage ==
  /\ altered \in {"intact", "padded"}
  /\ \E i \in 1 .. Len(frame) :
       \E v \in {0} \cup {(frame[i] + d) % 256 : d \in DamageBy} :
         /\ v # frame[i]
         /\ Alter("damaged", [frame EXCEPT ![i] = v])

Cut ==
  /\ altered \in {"intact", "padded"}
  /\ \E n \in 1 .. (Len(frame) - 1) : Alter("cut", SubSeq(frame, 1, n))
-----------------------------------------------------------------------------
\* The tools' receive loops: the packet, or rc not 0 where they continue.
ipv4_received(data, protocol) ==
  LET eth == ethernet_parse(data)
      ip  == ipv4_parse(eth.payload)
  IN  IF /\ eth.rc = 0 /\ eth.ethertype = ETHERNET_TYPE_IPV4
         /\ ip.rc = 0 /\ ip.protocol = protocol
         /\ ip.source_ip = Peer /\ ip.destination_ip = Self
      THEN ip ELSE Fail(-1)

receive_tcp_segment(data) ==
  LET ip  == ipv4_received(data, IPV4_PROTOCOL_TCP)
      tcp == tcp_parse(ip.payload)
  IN  IF /\ ip.rc = 0
         /\ tcp_checksum_ipv4_valid(ip.source_ip, ip.destination_ip, ip.payload)
         /\ tcp.rc = 0
         /\ tcp.source_port = PeerPort /\ tcp.destination_port = SelfPort
      THEN tcp ELSE Fail(-1)

receive_dns_datagram(data) ==
  LET ip  == ipv4_received(data, IPV4_PROTOCOL_UDP)
      udp == udp_parse(ip.payload)
  IN  IF /\ ip.rc = 0
         /\ udp_checksum_ipv4_valid(ip.source_ip, ip.destination_ip, ip.payload)
         /\ udp.rc = 0
         /\ udp.source_port = PeerPort /\ udp.destination_port = SelfPort
      THEN udp ELSE Fail(-1)

receive_echo_reply(data) ==
  LET ip   == ipv4_received(data, IPV4_PROTOCOL_ICMP)
      icmp == icmp_parse(ip.payload)
  IN  IF /\ ip.rc = 0 /\ icmp.rc = 0
         /\ icmp.type = ICMP_TYPE_ECHO_REPLY
         /\ icmp.identifier = Identifier /\ icmp.sequence = Sequence
      THEN icmp ELSE Fail(-1)

receive_arp_reply(data) ==
  LET eth == ethernet_parse(data)
      arp == arp_parse(eth.payload)
  IN  IF /\ eth.rc = 0 /\ eth.ethertype = ETHERNET_TYPE_ARP
         /\ arp.rc = 0 /\ arp.opcode = ARP_OPCODE_REPLY
         /\ arp.sender_ip = Peer /\ arp.target_ip = Self
      THEN arp ELSE Fail(-1)

\* recv hands over no more than the buffer holds.
Received == SubSeq(frame, 1, IF Len(frame) < ReceiveBufferSize THEN Len(frame) ELSE ReceiveBufferSize)

Receive(kind, packet) ==
  /\ phase = "wire" /\ listener = kind
  /\ phase' = "received" /\ accepted' = packet
  /\ UNCHANGED <<sent, frame, altered, listener>>

ReceiveTcp  == Receive("tcp", receive_tcp_segment(Received))
ReceiveUdp  == Receive("udp", receive_dns_datagram(Received))
ReceiveIcmp == Receive("icmp", receive_echo_reply(Received))
ReceiveArp  == Receive("arp", receive_arp_reply(Received))

FrameNext ==
  \/ send_tcp_segment \/ send_dns_query \/ send_ping \/ resolve_arp
  \/ Pad \/ Damage \/ Cut
  \/ ReceiveTcp \/ ReceiveUdp \/ ReceiveIcmp \/ ReceiveArp

FrameSpec == FrameInit /\ [][FrameNext]_fvars
-----------------------------------------------------------------------------
\* What a packet says, whatever checksum it carries.
Content(p) == IF "checksum" \in DOMAIN p THEN [p EXCEPT !.checksum = 0] ELSE p

MeantFor(m, kind) ==
  /\ m.kind = kind /\ m.to = Self /\ m.from = Peer
  /\ kind \in {"tcp", "udp"} => /\ m.packet.source_port = PeerPort
                                /\ m.packet.destination_port = SelfPort
  /\ kind = "icmp" => /\ m.packet.type = ICMP_TYPE_ECHO_REPLY
                      /\ m.packet.identifier = Identifier /\ m.packet.sequence = Sequence
  /\ kind = "arp" => /\ m.packet.opcode = ARP_OPCODE_REPLY
                     /\ m.packet.sender_ip = Peer /\ m.packet.target_ip = Self

(***************************************************************************)
(* A frame that arrives whole, padded or not, is accepted by exactly the   *)
(* loop it is meant for, and that loop gets the packet that was sent: the  *)
(* lengths in the IPv4 and UDP headers, and not the frame's, delimit it,   *)
(* options do not shift the payload, and what a serializer wrote the       *)
(* parser of the other end reads back, checksums included.                 *)
(***************************************************************************)
WholeFrameDelivered ==
  phase = "received" /\ altered \in {"intact", "padded"} =>
    /\ (accepted.rc = 0) <=> MeantFor(sent, listener)
    /\ accepted.rc = 0 => Content(accepted) = Content(sent.packet)

(***************************************************************************)
(* A frame with a changed byte or without its end is ignored, or tells the *)
(* loop exactly what was sent: the checksums of IPv4, TCP, UDP and ICMP    *)
(* leave no byte out, and a changed header length, which makes the IPv4    *)
(* sum take in a part of the packet, is found by the sum of TCP or ICMP.   *)
(* A UDP checksum damaged into 0 switches the check off, the datagram is   *)
(* still the one sent.  Two cases are left out.  ARP has no checksum: for  *)
(* it only the cut frames are covered.  And a datagram with a changed      *)
(* header length is read further behind, where its data may look like a    *)
(* datagram without checksum.                                              *)
(***************************************************************************)
HeaderLengthDamaged == altered = "damaged" /\ frame[ETHERNET_HEADER_LEN + 1] # 69

DamagedFrameHarmless ==
  /\ phase = "received" /\ accepted.rc = 0
  /\ \/ altered = "cut"
     \/ altered = "damaged" /\ sent.kind \in {"tcp", "icmp"}
     \/ altered = "damaged" /\ sent.kind = "udp" /\ ~HeaderLengthDamaged
  => /\ MeantFor(sent, listener)
     /\ Content(accepted) = Content(sent.packet)

(***************************************************************************)
(* A message is left unsent only because it does not fit into one frame:   *)
(* no payload, and no checksum that happens to come out as 0, stops one    *)
(* that fits, and nothing longer is sent in part.                          *)
(***************************************************************************)
HeaderLen(m) ==
  CASE m.kind = "tcp"  -> IPV4_MIN_HEADER_LEN + TCP_MIN_HEADER_LEN + Len(m.packet.options)
    [] m.kind = "udp"  -> IPV4_MIN_HEADER_LEN + UDP_HEADER_LEN
    [] m.kind = "icmp" -> IPV4_MIN_HEADER_LEN + ICMP_ECHO_HEADER_LEN

UnsentOnlyIfTooLong ==
  phase # "idle" /\ sent.kind # "arp" =>
    ((phase = "unsent") <=> (HeaderLen(sent) + Len(sent.packet.payload) > EthernetMaxPayload))
================================================================================
