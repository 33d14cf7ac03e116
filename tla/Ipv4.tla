---------------------------------- MODULE Ipv4 ----------------------------------
(***************************************************************************)
(* IPv4 packets (src/src/ipv4.c).  Fragments are parsed like any packet.   *)
(***************************************************************************)
EXTENDS Checksum

IPV4_MIN_IHL         == 5
IPV4_MIN_HEADER_LEN  == 20
IPV4_MAX_PAYLOAD_LEN == MaxPacketLen - IPV4_MIN_HEADER_LEN
IPV4_PROTOCOL_ICMP   == 1
IPV4_PROTOCOL_TCP    == 6
IPV4_PROTOCOL_UDP    == 17
IPV4_FLAG_DF         == 2

ipv4_checksum(data) == checksum_finish(add_bytes(0, data))

Ipv4Fields(data, header_len, total_length) ==
  [rc |-> 0, version |-> data[1] \div 16, ihl |-> data[1] % 16,
   dscp |-> data[2] \div 4, ecn |-> data[2] % 4,
   total_length |-> total_length, identification |-> read_u16_be(data, 4),
   flags |-> read_u16_be(data, 6) \div 8192, fragment_offset |-> read_u16_be(data, 6) % 8192,
   ttl |-> data[9], protocol |-> data[10], header_checksum |-> read_u16_be(data, 10),
   source_ip |-> Slice(data, 12, 4), destination_ip |-> Slice(data, 16, 4),
   options |-> Slice(data, IPV4_MIN_HEADER_LEN, header_len - IPV4_MIN_HEADER_LEN),
   payload |-> Slice(data, header_len, total_length - header_len)]

\* Fault: the payload is all that follows the header, padding included.
ipv4_parse_to_end(data) ==
  IF Len(data) < IPV4_MIN_HEADER_LEN THEN Fail(-2)
  ELSE LET header_len == (data[1] % 16) * 4
       IN  IF data[1] \div 16 # 4 THEN Fail(-3)
           ELSE IF header_len < IPV4_MIN_HEADER_LEN \/ Len(data) < header_len THEN Fail(-4)
           ELSE IF ipv4_checksum(Slice(data, 0, header_len)) # 0 THEN Fail(-6)
           ELSE Ipv4Fields(data, header_len, Len(data))

\* The payload ends where total_length says; what follows is padding.
ipv4_parse(data) ==
  IF Len(data) < IPV4_MIN_HEADER_LEN THEN Fail(-2)
  ELSE LET header_len   == (data[1] % 16) * 4
           total_length == read_u16_be(data, 2)
       IN  IF data[1] \div 16 # 4 THEN Fail(-3)
           ELSE IF data[1] % 16 < IPV4_MIN_IHL \/ Len(data) < header_len THEN Fail(-4)
           ELSE IF total_length < header_len \/ total_length > Len(data) THEN Fail(-5)
           ELSE IF ipv4_checksum(Slice(data, 0, header_len)) # 0 THEN Fail(-6)
           ELSE IF total_length - header_len > IPV4_MAX_PAYLOAD_LEN THEN Fail(-7)
           ELSE Ipv4Fields(data, header_len, total_length)

Ipv4Header(p, total_len, checksum) ==
  <<p.version * 16 + (p.ihl % 16), (p.dscp % 64) * 4 + (p.ecn % 4)>>
  \o write_u16_be(u16(total_len)) \o write_u16_be(p.identification)
  \o write_u16_be((p.flags % 8) * 8192 + (p.fragment_offset % 8192))
  \o <<p.ttl, p.protocol>> \o write_u16_be(checksum)
  \o p.source_ip \o p.destination_ip \o p.options

ipv4_serialize(p, buffer_len) ==
  LET header_len == p.ihl * 4
      total_len  == header_len + Len(p.payload)
  IN  IF \/ p.version # 4 \/ p.ihl < IPV4_MIN_IHL \/ p.ihl > 15
         \/ Len(p.options) # header_len - IPV4_MIN_HEADER_LEN
         \/ Len(p.payload) > IPV4_MAX_PAYLOAD_LEN
         \/ total_len > MaxPacketLen \/ buffer_len < total_len
      THEN <<>>
      ELSE Ipv4Header(p, total_len, ipv4_checksum(Ipv4Header(p, total_len, 0))) \o p.payload

\* A packet without options, not to be fragmented.
ipv4_build(source_ip, destination_ip, protocol, payload, ttl, identification) ==
  IF Len(payload) > IPV4_MAX_PAYLOAD_LEN THEN Fail(-1)
  ELSE [rc |-> 0, version |-> 4, ihl |-> IPV4_MIN_IHL, dscp |-> 0, ecn |-> 0,
        total_length |-> u16(IPV4_MIN_HEADER_LEN + Len(payload)),
        identification |-> identification, flags |-> IPV4_FLAG_DF, fragment_offset |-> 0,
        ttl |-> ttl, protocol |-> protocol, header_checksum |-> 0,
        source_ip |-> source_ip, destination_ip |-> destination_ip,
        options |-> <<>>, payload |-> payload]
================================================================================
