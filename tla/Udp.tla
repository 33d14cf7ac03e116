----------------------------------- MODULE Udp -----------------------------------
(***************************************************************************)
(* UDP datagrams over IPv4 (src/src/udp.c).                                *)
(***************************************************************************)
EXTENDS Checksum

UDP_HEADER_LEN      == 8
UDP_MAX_PAYLOAD_LEN == MaxPacketLen - UDP_HEADER_LEN
UDP_PROTOCOL        == 17

udp_build(source_port, destination_port, payload) ==
  IF Len(payload) > UDP_MAX_PAYLOAD_LEN THEN Fail(-1)
  ELSE [rc |-> 0, source_port |-> source_port, destination_port |-> destination_port,
        length |-> u16(UDP_HEADER_LEN + Len(payload)), checksum |-> 0, payload |-> payload]

\* The payload ends where the length field says, which may be before data does.
udp_parse(data) ==
  IF Len(data) < UDP_HEADER_LEN THEN Fail(-2)
  ELSE LET length == read_u16_be(data, 4)
       IN  IF length < UDP_HEADER_LEN \/ length > Len(data) THEN Fail(-3)
           ELSE IF length - UDP_HEADER_LEN > UDP_MAX_PAYLOAD_LEN THEN Fail(-4)
           ELSE [rc |-> 0, source_port |-> read_u16_be(data, 0),
                 destination_port |-> read_u16_be(data, 2), length |-> length,
                 checksum |-> read_u16_be(data, 6),
                 payload |-> Slice(data, UDP_HEADER_LEN, length - UDP_HEADER_LEN)]

udp_serialize(p, buffer_len) ==
  LET total_len == UDP_HEADER_LEN + Len(p.payload)
  IN  IF \/ Len(p.payload) > UDP_MAX_PAYLOAD_LEN
         \/ total_len > MaxPacketLen \/ buffer_len < total_len
      THEN <<>>
      ELSE write_u16_be(p.source_port) \o write_u16_be(p.destination_port)
           \o write_u16_be(u16(total_len)) \o write_u16_be(p.checksum) \o p.payload

udp_sum(source_ip, destination_ip, data) ==
  checksum_finish(add_bytes(
    pseudo_header_sum(source_ip, destination_ip, UDP_PROTOCOL, Len(data)), data))

\* Fault: a sum of zero is transmitted as zero, which says "no checksum".
udp_checksum_ipv4_zero(source_ip, destination_ip, data) ==
  udp_sum(source_ip, destination_ip, data)

\* Zero would say that there is no checksum: 0xFFFF stands for it.
udp_checksum_ipv4(source_ip, destination_ip, data) ==
  IF Len(data) < UDP_HEADER_LEN \/ Len(data) > 65535 THEN 0
  ELSE LET result == udp_sum(source_ip, destination_ip, data)
       IN  IF result = 0 THEN 65535 ELSE result

udp_serialize_ipv4(p, source_ip, destination_ip, buffer_len) ==
  LET zeroed   == udp_serialize([p EXCEPT !.checksum = 0], buffer_len)
      checksum == udp_checksum_ipv4(source_ip, destination_ip, zeroed)
  IN  IF zeroed = <<>> \/ checksum = 0 THEN <<>> ELSE Patch(zeroed, 6, checksum)

\* The checksum of UDP over IPv4 is optional: a field of 0 is accepted.
udp_checksum_ipv4_valid(source_ip, destination_ip, data) ==
  /\ Len(data) >= UDP_HEADER_LEN
  /\ read_u16_be(data, 6) # 0 => udp_sum(source_ip, destination_ip, data) = 0
================================================================================
