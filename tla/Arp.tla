----------------------------------- MODULE Arp -----------------------------------
(***************************************************************************)
(* ARP packets for IPv4 over Ethernet (src/src/arp.c).                     *)
(***************************************************************************)
EXTENDS Wire

ARP_PACKET_LEN        == 28
ARP_ETHERNET          == 1
ARP_PROTOCOL_IPV4     == 2048
ARP_OPCODE_REQUEST    == 1
ARP_OPCODE_REPLY      == 2
ARP_HARDWARE_ADDR_LEN == 6
ARP_PROTOCOL_ADDR_LEN == 4

arp_packet_is_valid(p) ==
  /\ p.hardware_type = ARP_ETHERNET
  /\ p.protocol_type = ARP_PROTOCOL_IPV4
  /\ p.hardware_addr_len = ARP_HARDWARE_ADDR_LEN
  /\ p.protocol_addr_len = ARP_PROTOCOL_ADDR_LEN
  /\ p.opcode \in {ARP_OPCODE_REQUEST, ARP_OPCODE_REPLY}

\* Longer data is fine: short Ethernet frames are padded.
arp_parse(data) ==
  IF Len(data) < ARP_PACKET_LEN THEN Fail(-2)
  ELSE IF read_u16_be(data, 0) # ARP_ETHERNET THEN Fail(-3)
  ELSE IF read_u16_be(data, 2) # ARP_PROTOCOL_IPV4 THEN Fail(-4)
  ELSE IF data[5] # ARP_HARDWARE_ADDR_LEN \/ data[6] # ARP_PROTOCOL_ADDR_LEN THEN Fail(-5)
  ELSE IF read_u16_be(data, 6) \notin {ARP_OPCODE_REQUEST, ARP_OPCODE_REPLY} THEN Fail(-6)
  ELSE [rc |-> 0, hardware_type |-> read_u16_be(data, 0), protocol_type |-> read_u16_be(data, 2),
        hardware_addr_len |-> data[5], protocol_addr_len |-> data[6],
        opcode |-> read_u16_be(data, 6),
        sender_mac |-> Slice(data, 8, 6), sender_ip |-> Slice(data, 14, 4),
        target_mac |-> Slice(data, 18, 6), target_ip |-> Slice(data, 24, 4)]

arp_serialize(p, buffer_len) ==
  IF buffer_len < ARP_PACKET_LEN \/ ~arp_packet_is_valid(p) THEN <<>>
  ELSE write_u16_be(p.hardware_type) \o write_u16_be(p.protocol_type)
       \o <<p.hardware_addr_len, p.protocol_addr_len>> \o write_u16_be(p.opcode)
       \o p.sender_mac \o p.sender_ip \o p.target_mac \o p.target_ip

Ipv4OverEthernet(opcode, smac, sip, tmac, tip) ==
  [rc |-> 0, hardware_type |-> ARP_ETHERNET, protocol_type |-> ARP_PROTOCOL_IPV4,
   hardware_addr_len |-> ARP_HARDWARE_ADDR_LEN, protocol_addr_len |-> ARP_PROTOCOL_ADDR_LEN,
   opcode |-> opcode, sender_mac |-> smac, sender_ip |-> sip, target_mac |-> tmac, target_ip |-> tip]

\* The MAC asked for is six zero bytes.
arp_build_request(smac, sip, tip) ==
  Ipv4OverEthernet(ARP_OPCODE_REQUEST, smac, sip, <<0, 0, 0, 0, 0, 0>>, tip)

arp_build_reply(smac, sip, tmac, tip) ==
  Ipv4OverEthernet(ARP_OPCODE_REPLY, smac, sip, tmac, tip)
================================================================================
